---- MODULE Spec2Model ----
(***************************************************************************)
(* A model of vegaDataframe, the in-memory table of the Vega data          *)
(* processing framework (vegaDataframe.h / vegaDataframe.cpp).             *)
(*                                                                         *)
(* A std::string cell is a sequence of one-character strings, so that the  *)
(* parsers (operator>> in infer_data_type, std::stod) and the formatter    *)
(* (std::to_string) are computed character by character; the empty string  *)
(* is the empty sequence.  Column names are plain strings.  A double is a  *)
(* fixed-point integer counting millionths, the precision that             *)
(* std::to_string(double) prints.  size_t indices are 0-based as in the    *)
(* source; TLA+ sequences are 1-based, hence the "+ 1" in subscripts.      *)
(***************************************************************************)
EXTENDS Integers, Sequences, FiniteSets, TLC

VARIABLES df, other, result, pre, last, calls

vars == <<df, other, result, pre, last, calls>>

(***************************************************************************)
(* Bounds of the model.                                                    *)
(***************************************************************************)
MaxRows == 2
MaxCols == 2
MaxSteps == 2

(***************************************************************************)
(* enum class DataType { INT, FLOAT, STRING }: the enumerators in their    *)
(* declared order, which is the order operator> compares them in.          *)
(***************************************************************************)
DataType_INT == 0
DataType_FLOAT == 1
DataType_STRING == 2

DataTypes == {DataType_INT, DataType_FLOAT, DataType_STRING}

(***************************************************************************)
(* Characters and strings.                                                 *)
(***************************************************************************)
Digits == {"0", "1", "2", "3", "4", "5", "6", "7", "8", "9"}

DigitChars == <<"0", "1", "2", "3", "4", "5", "6", "7", "8", "9">>

DigitVal(c) == CHOOSE d \in 0..9 : DigitChars[d + 1] = c

\* The characters of the model's cells: digits, the decimal point and two
\* letters.  No sign, blank, exponent, hexadecimal prefix or inf/nan letter
\* occurs, so the parsers below only have to know digits and the point.
Chars == Digits \cup {".", "k", "u"}

Micro == 1000000

RECURSIVE Str(_)
\* The std::string a character sequence stands for, as a TLA+ string.
Str(s) == IF s = <<>> THEN "" ELSE s[1] \o Str(Tail(s))

RECURSIVE IntChars(_)
\* The decimal digits of a natural number.
IntChars(n) ==
    IF n < 10 THEN <<DigitChars[n + 1]>>
    ELSE IntChars(n \div 10) \o <<DigitChars[(n % 10) + 1]>>

\* std::to_string(size_t) and std::to_string(int) of a non-negative value.
to_string_int(n) == IntChars(n)

RECURSIVE PadZeros(_, _)
PadZeros(s, n) == IF Len(s) >= n THEN s ELSE PadZeros(<<"0">> \o s, n)

\* std::to_string(double): "%f", six digits after the point.
to_string(v) ==
    LET a == IF v < 0 THEN 0 - v ELSE v
        body == IntChars(a \div Micro) \o <<".">> \o PadZeros(IntChars(a % Micro), 6)
    IN IF v < 0 THEN <<"-">> \o body ELSE body

\* The length of the longest prefix of s made of digits.
RECURSIVE DigitPrefix(_)
DigitPrefix(s) ==
    IF s # <<>> /\ s[1] \in Digits THEN 1 + DigitPrefix(Tail(s)) ELSE 0

RECURSIVE DigitsValue(_, _)
\* The number a digit sequence denotes, continuing from acc.
DigitsValue(s, acc) ==
    IF s = <<>> THEN acc ELSE DigitsValue(Tail(s), acc * 10 + DigitVal(s[1]))

\* The text a floating-point parse consumes: digits, then optionally a
\* point and more digits.  ip and fp count the digits before and after the
\* point; used is the length of that text, 0 when there is no digit on
\* either side of the point (nothing is converted).
FloatScan(s) ==
    LET ip == DigitPrefix(s)
        rest == SubSeq(s, ip + 1, Len(s))
        dot == rest # <<>> /\ rest[1] = "."
        fp == IF dot THEN DigitPrefix(Tail(rest)) ELSE 0
    IN [ip |-> ip, fp |-> fp,
        used |-> IF ip + fp = 0 THEN 0 ELSE ip + (IF dot THEN 1 ELSE 0) + fp]

\* (iss >> tmp_int) && iss.eof(): the whole value is an integer literal.
ParsesAsInteger(value) ==
    value # <<>> /\ DigitPrefix(value) = Len(value)

\* (iss >> tmp_double) && iss.eof(): the whole value is a decimal literal.
ParsesAsDouble(value) ==
    value # <<>> /\ FloatScan(value).used = Len(value)

infer_data_type(value) ==
    IF value = <<>> THEN DataType_STRING
    ELSE IF ParsesAsInteger(value) THEN DataType_INT
    ELSE IF ParsesAsDouble(value) THEN DataType_FLOAT
    ELSE DataType_STRING

\* std::stod converts the longest numeric prefix and throws
\* std::invalid_argument when there is none.
stod_throws(s) == FloatScan(s).used = 0

\* The value std::stod returns, in millionths (digits past the sixth
\* decimal are dropped; the model's cells have none).
stod(s) ==
    LET f == FloatScan(s)
        int == DigitsValue(SubSeq(s, 1, f.ip), 0)
        fdigits == SubSeq(s, f.ip + 2, f.ip + 1 + (IF f.fp > 6 THEN 6 ELSE f.fp))
        frac == DigitsValue(fdigits \o [i \in 1..(6 - Len(fdigits)) |-> "0"], 0)
    IN int * Micro + frac

(***************************************************************************)
(* Sequence helpers.                                                       *)
(***************************************************************************)
Range(s) == {s[i] : i \in DOMAIN s}

InsertAt(s, pos, x) == SubSeq(s, 1, pos) \o <<x>> \o SubSeq(s, pos + 1, Len(s))

RemoveAt(s, pos) == SubSeq(s, 1, pos) \o SubSeq(s, pos + 2, Len(s))

\* The sequences over S of length exactly n.
SeqsOfLen(S, n) == [1..n -> S]

\* The sequences over S of length at most n.
SeqsUpTo(S, n) == UNION {SeqsOfLen(S, k) : k \in 0..n}

RECURSIVE Ascending(_, _, _)
\* The members of S among lo..hi-1, in increasing order.
Ascending(S, lo, hi) ==
    IF lo >= hi THEN <<>>
    ELSE (IF lo \in S THEN <<lo>> ELSE <<>>) \o Ascending(S, lo + 1, hi)

(***************************************************************************)
(* The table: the five public members of class vegaDataframe.              *)
(***************************************************************************)
vegaDataframe(features, values, counts, types, nulls) ==
    [data_features |-> features, data_values |-> values,
     non_null_counts |-> counts, column_types |-> types,
     null_positions |-> nulls]

\* A default-constructed vegaDataframe.
EmptyDf == vegaDataframe(<<>>, <<>>, <<>>, <<>>, <<>>)

shape(t) == <<Len(t.data_values), Len(t.data_features)>>

\* isnull(): the size of each column's null_positions entry.
isnull(t) == [c \in DOMAIN t.null_positions |-> Len(t.null_positions[c])]

\* The cell the accessors (get_column, iat) report at row r, column c
\* (0-based): a row too short to hold it reads as the empty string.
CellAt(t, r, c) ==
    IF c < Len(t.data_values[r + 1]) THEN t.data_values[r + 1][c + 1] ELSE <<>>

\* find_column_index: std::ranges::find returns the first match; the
\* function throws when there is none.
HasColumn(t, col_name) == \E i \in DOMAIN t.data_features : t.data_features[i] = col_name

find_column_index(t, col_name) ==
    (CHOOSE i \in DOMAIN t.data_features :
        /\ t.data_features[i] = col_name
        /\ \A j \in 1..(i - 1) : t.data_features[j] # col_name) - 1

\* update_stats_after_modification: both vectors are reassigned to the
\* length of data_features; a row contributes to column col only when
\* col < row.size().
update_stats_after_modification(t) ==
    LET column_count == Len(t.data_features)
        rows == t.data_values
        Held(col) == {row \in 0..(Len(rows) - 1) : col < Len(rows[row + 1])}
        Nulls(col) == {row \in Held(col) : rows[row + 1][col + 1] = <<>>}
    IN [t EXCEPT
          !.non_null_counts =
              [c \in 1..column_count |-> Cardinality(Held(c - 1) \ Nulls(c - 1))],
          !.null_positions =
              [c \in 1..column_count |-> Ascending(Nulls(c - 1), 0, Len(rows))]]

\* read_csv after the file has been split into the trimmed, non-empty
\* header tokens and, per data line, its trimmed tokens: every row gets
\* exactly column_count cells (a short line is padded with empty cells, a
\* long one is cut), every column starts as DataType_INT and widens to the largest
\* inferred type of its non-empty cells.
read_csv(header, lines) ==
    LET column_count == Len(header)
        Row(tokens) == [i \in 1..column_count |->
                           IF i <= Len(tokens) THEN tokens[i] ELSE <<>>]
        rows == [r \in DOMAIN lines |-> Row(lines[r])]
        Widest(i) ==
            LET ts == {infer_data_type(rows[r][i]) :
                         r \in {q \in DOMAIN rows : rows[q][i] # <<>>}}
            IN IF ts = {} THEN DataType_INT ELSE CHOOSE m \in ts : \A x \in ts : x <= m
    IN vegaDataframe(
         header, rows,
         [i \in 1..column_count |->
             Cardinality({r \in DOMAIN rows : rows[r][i] # <<>>})],
         [i \in 1..column_count |-> Widest(i)],
         [i \in 1..column_count |->
             Ascending({r - 1 : r \in {q \in DOMAIN rows : rows[q][i] = <<>>}},
                       0, Len(rows))])

(***************************************************************************)
(* std::string comparison: lexicographic on the character codes.           *)
(***************************************************************************)
CharCode(c) ==
    IF c = "." THEN 46
    ELSE IF c \in Digits THEN 48 + DigitVal(c)
    ELSE IF c = "k" THEN 107
    ELSE 117

RECURSIVE StrLess(_, _)
\* a < b for std::string.
StrLess(a, b) ==
    IF b = <<>> THEN FALSE
    ELSE IF a = <<>> THEN TRUE
    ELSE IF a[1] # b[1] THEN CharCode(a[1]) < CharCode(b[1])
    ELSE StrLess(Tail(a), Tail(b))

\* a / b of two doubles, rounded to the nearest millionth (b > 0).
RoundDiv(a, b) ==
    IF a >= 0 THEN (2 * a + b) \div (2 * b)
    ELSE 0 - ((2 * (0 - a) + b) \div (2 * b))

RECURSIVE InsertSorted(_, _)
InsertSorted(s, x) ==
    IF s = <<>> THEN <<x>>
    ELSE IF x < s[1] THEN <<x>> \o s
    ELSE <<s[1]>> \o InsertSorted(Tail(s), x)

RECURSIVE SortNumbers(_)
\* std::ranges::sort of a vector<double>.
SortNumbers(s) ==
    IF s = <<>> THEN <<>> ELSE InsertSorted(SortNumbers(Tail(s)), s[1])

RECURSIVE SumSeq(_)
SumSeq(s) == IF s = <<>> THEN 0 ELSE s[1] + SumSeq(Tail(s))

(***************************************************************************)
(* The outcome of a call: the table it was called on as the call leaves    *)
(* it, the table it returns (EmptyDf for a void method or a plain result), *)
(* whether it left by an exception, and whether it ran into undefined      *)
(* behaviour that ends the process.                                        *)
(***************************************************************************)
Returns(self, ret) ==
    [self |-> self, ret |-> ret, threw |-> FALSE, crashed |-> FALSE]

Done(self) == Returns(self, EmptyDf)

Throws(self) ==
    [self |-> self, ret |-> EmptyDf, threw |-> TRUE, crashed |-> FALSE]

Crashes(self) ==
    [self |-> self, ret |-> EmptyDf, threw |-> FALSE, crashed |-> TRUE]

\* The row with its cell of column col_idx replaced, when it holds one.
SetCell(row, col_idx, value) ==
    IF col_idx < Len(row) THEN [row EXCEPT ![col_idx + 1] = value] ELSE row

\* The rows that hold a non-empty cell in column col_idx, in row order.
ValidCells(t, col_idx) ==
    LET rows == t.data_values
        keep == {r \in DOMAIN rows :
                    col_idx < Len(rows[r]) /\ rows[r][col_idx + 1] # <<>>}
        idx == Ascending(keep, 1, Len(rows) + 1)
    IN [k \in DOMAIN idx |-> rows[idx[k]][col_idx + 1]]

\* The values std::stod yields for the non-empty cells of a column, in row
\* order; a cell on which std::stod throws is skipped (catch (...) {}).
ParsedValues(t, col_idx) ==
    LET cells == ValidCells(t, col_idx)
        ok == {k \in DOMAIN cells : ~stod_throws(cells[k])}
        idx == Ascending(ok, 1, Len(cells) + 1)
    IN [k \in DOMAIN idx |-> stod(cells[idx[k]])]

(***************************************************************************)
(* Column operations.                                                      *)
(***************************************************************************)
\* add_column pushing the name before it checks the length of values.
add_column_name_first(t, col_name, values) ==
    IF Len(values) # Len(t.data_values)
    THEN Throws([t EXCEPT !.data_features = Append(@, col_name)])
    ELSE Done(vegaDataframe(
           Append(t.data_features, col_name),
           [i \in DOMAIN t.data_values |-> Append(t.data_values[i], values[i])],
           Append(t.non_null_counts,
                  Cardinality({i \in DOMAIN values : values[i] # <<>>})),
           Append(t.column_types, DataType_STRING),
           Append(t.null_positions,
                  Ascending({i - 1 : i \in {q \in DOMAIN values : values[q] = <<>>}},
                            0, Len(values)))))

add_column(t, col_name, values) ==
    IF Len(values) # Len(t.data_values) THEN Throws(t)
    ELSE Done(vegaDataframe(
           Append(t.data_features, col_name),
           [i \in DOMAIN t.data_values |-> Append(t.data_values[i], values[i])],
           Append(t.non_null_counts,
                  Cardinality({i \in DOMAIN values : values[i] # <<>>})),
           Append(t.column_types, DataType_STRING),
           Append(t.null_positions,
                  Ascending({i - 1 : i \in {q \in DOMAIN values : values[q] = <<>>}},
                            0, Len(values)))))

\* insert_column.  data_values[i].insert(begin() + pos, ...) on a row with
\* fewer than pos cells is undefined: the process ends (ub.crash), or the
\* row grows by one cell of unpredictable content (ub.junk) behind the
\* cells it had.
insert_column(t, pos, col_name, values, ub) ==
    IF pos > Len(t.data_features) THEN Throws(t)
    ELSE IF Len(values) # Len(t.data_values) THEN Throws(t)
    ELSE IF ub.crash /\ \E i \in DOMAIN t.data_values : pos > Len(t.data_values[i])
    THEN Crashes(t)
    ELSE Done(vegaDataframe(
           InsertAt(t.data_features, pos, col_name),
           [i \in DOMAIN t.data_values |->
               IF pos <= Len(t.data_values[i])
               THEN InsertAt(t.data_values[i], pos, values[i])
               ELSE Append(t.data_values[i], ub.junk)],
           InsertAt(t.non_null_counts, pos,
                    Cardinality({i \in DOMAIN values : values[i] # <<>>})),
           InsertAt(t.column_types, pos, DataType_STRING),
           InsertAt(t.null_positions, pos,
                    Ascending({i - 1 : i \in {q \in DOMAIN values : values[q] = <<>>}},
                              0, Len(values)))))

drop_column(t, col_name) ==
    IF ~HasColumn(t, col_name) THEN Throws(t)
    ELSE LET col_idx == find_column_index(t, col_name)
         IN Done(vegaDataframe(
              RemoveAt(t.data_features, col_idx),
              [i \in DOMAIN t.data_values |->
                  IF col_idx < Len(t.data_values[i])
                  THEN RemoveAt(t.data_values[i], col_idx)
                  ELSE t.data_values[i]],
              RemoveAt(t.non_null_counts, col_idx),
              RemoveAt(t.column_types, col_idx),
              RemoveAt(t.null_positions, col_idx)))

rename_column(t, old_name, new_name) ==
    IF ~HasColumn(t, old_name) THEN Throws(t)
    ELSE Done([t EXCEPT
                 !.data_features[find_column_index(t, old_name) + 1] = new_name])

(***************************************************************************)
(* Row operations.                                                         *)
(***************************************************************************)
drop_row(t, row_index) ==
    IF row_index >= Len(t.data_values) THEN Throws(t)
    ELSE Done(update_stats_after_modification(
           [t EXCEPT !.data_values = RemoveAt(t.data_values, row_index)]))

(***************************************************************************)
(* Missing data handling.                                                  *)
(***************************************************************************)
\* FillEmpty without its test for the empty cell: every cell of the column
\* is overwritten.
FillEveryCell(rows, col_idx, value) ==
    [i \in DOMAIN rows |->
        IF col_idx < Len(rows[i]) THEN SetCell(rows[i], col_idx, value) ELSE rows[i]]

\* Every empty cell of column col_idx replaced by value (rows too short to
\* hold the cell are left alone).
FillEmpty(rows, col_idx, value) ==
    [i \in DOMAIN rows |->
        IF col_idx < Len(rows[i]) /\ rows[i][col_idx + 1] = <<>>
        THEN SetCell(rows[i], col_idx, value) ELSE rows[i]]

fillna_value(t, col_name, value) ==
    IF ~HasColumn(t, col_name) THEN Throws(t)
    ELSE Done(update_stats_after_modification(
           [t EXCEPT !.data_values =
               FillEmpty(t.data_values, find_column_index(t, col_name), value)]))

RECURSIVE ForwardFill(_, _, _)
\* The forward-fill loop over the rows, last_valid being the last
\* non-empty cell seen ("" when none).
ForwardFill(rows, col_idx, last_valid) ==
    IF rows = <<>> THEN <<>>
    ELSE LET row == rows[1]
         IN IF col_idx < Len(row)
            THEN IF row[col_idx + 1] = <<>>
                 THEN <<IF last_valid # <<>>
                        THEN SetCell(row, col_idx, last_valid) ELSE row>>
                      \o ForwardFill(Tail(rows), col_idx, last_valid)
                 ELSE <<row>> \o ForwardFill(Tail(rows), col_idx, row[col_idx + 1])
            ELSE <<row>> \o ForwardFill(Tail(rows), col_idx, last_valid)

RECURSIVE BackwardFill(_, _, _, _)
\* The backward loop of fillna_method: for (i = size - 1; i >= 0; --i),
\* next_valid being the last non-empty cell seen ("" when none).
BackwardFill(rows, col_idx, i, next_valid) ==
    IF i < 0 THEN rows
    ELSE LET row == rows[i + 1]
         IN IF col_idx < Len(row)
            THEN IF row[col_idx + 1] = <<>>
                 THEN BackwardFill(
                        IF next_valid # <<>>
                        THEN [rows EXCEPT ![i + 1] = SetCell(row, col_idx, next_valid)]
                        ELSE rows,
                        col_idx, i - 1, next_valid)
                 ELSE BackwardFill(rows, col_idx, i - 1, row[col_idx + 1])
            ELSE BackwardFill(rows, col_idx, i - 1, next_valid)

fillna_method(t, col_name, method) ==
    IF ~HasColumn(t, col_name) THEN Throws(t)
    ELSE LET col_idx == find_column_index(t, col_name)
             rows == IF method \in {"ffill", "pad"}
                     THEN ForwardFill(t.data_values, col_idx, <<>>)
                     ELSE IF method \in {"bfill", "backfill"}
                     THEN BackwardFill(t.data_values, col_idx,
                                       Len(t.data_values) - 1, <<>>)
                     ELSE t.data_values
         IN Done(update_stats_after_modification([t EXCEPT !.data_values = rows]))

\* The search loops of interpolate and LinearInterpolationImputer: the
\* nearest row index before i (after i) whose cell is non-empty and which
\* std::stod accepts; -1 when there is none.
RECURSIVE FindPrev(_, _, _)
FindPrev(rows, col_idx, j) ==
    IF j < 0 THEN 0 - 1
    ELSE IF /\ col_idx < Len(rows[j + 1])
            /\ rows[j + 1][col_idx + 1] # <<>>
            /\ ~stod_throws(rows[j + 1][col_idx + 1])
    THEN j
    ELSE FindPrev(rows, col_idx, j - 1)

RECURSIVE FindNext(_, _, _)
FindNext(rows, col_idx, j) ==
    IF j >= Len(rows) THEN 0 - 1
    ELSE IF /\ col_idx < Len(rows[j + 1])
            /\ rows[j + 1][col_idx + 1] # <<>>
            /\ ~stod_throws(rows[j + 1][col_idx + 1])
    THEN j
    ELSE FindNext(rows, col_idx, j + 1)

RECURSIVE LinearFill(_, _, _)
\* The interpolation loop from row i on: for (i = 1; i < size - 1; ++i),
\* writing into the rows it goes on reading.
LinearFill(rows, col_idx, i) ==
    IF i >= Len(rows) - 1 THEN rows
    ELSE IF col_idx < Len(rows[i + 1]) /\ rows[i + 1][col_idx + 1] = <<>>
    THEN LET prev_idx == FindPrev(rows, col_idx, i - 1)
             next_idx == FindNext(rows, col_idx, i + 1)
         IN IF prev_idx >= 0 /\ next_idx >= 0
            THEN LET prev_val == stod(rows[prev_idx + 1][col_idx + 1])
                     next_val == stod(rows[next_idx + 1][col_idx + 1])
                     interpolated ==
                         prev_val + RoundDiv((i - prev_idx) * (next_val - prev_val),
                                             next_idx - prev_idx)
                 IN LinearFill(
                      [rows EXCEPT ![i + 1] =
                          SetCell(rows[i + 1], col_idx, to_string(interpolated))],
                      col_idx, i + 1)
            ELSE LinearFill(rows, col_idx, i + 1)
    ELSE LinearFill(rows, col_idx, i + 1)

(***************************************************************************)
(* The Imputer strategies.                                                 *)
(***************************************************************************)
\* What MeanImputer, MedianImputer, ModeImputer and ConstantImputer do once
\* they have their fill value: fill the empty cells, clear the column's
\* null positions and set its non-null count to the row count.
FillAndMark(t, col_idx, value) ==
    [t EXCEPT !.data_values = FillEmpty(t.data_values, col_idx, value),
              !.null_positions[col_idx + 1] = <<>>,
              !.non_null_counts[col_idx + 1] = Len(t.data_values)]

MeanImputer_impute(t, column) ==
    IF ~HasColumn(t, column) THEN Throws(t)
    ELSE LET col_idx == find_column_index(t, column)
             values == ParsedValues(t, col_idx)
         IN IF t.column_types[col_idx + 1] = DataType_STRING THEN Throws(t)
            ELSE IF Len(values) = 0 THEN Done(t)
            ELSE Done(FillAndMark(t, col_idx,
                        to_string(RoundDiv(SumSeq(values), Len(values)))))

\* The median of a sorted, non-empty vector, as median() and MedianImputer
\* compute it.
MedianOf(values) ==
    LET n == Len(values)
    IN IF n % 2 = 0
       THEN RoundDiv(values[n \div 2] + values[(n \div 2) + 1], 2)
       ELSE values[(n \div 2) + 1]

MedianImputer_impute(t, column) ==
    IF ~HasColumn(t, column) THEN Throws(t)
    ELSE LET col_idx == find_column_index(t, column)
             values == ParsedValues(t, col_idx)
         IN IF t.column_types[col_idx + 1] = DataType_STRING THEN Throws(t)
            ELSE IF Len(values) = 0 THEN Done(t)
            ELSE Done(FillAndMark(t, col_idx,
                        to_string(MedianOf(SortNumbers(values)))))

\* std::ranges::max_element over the std::map of counts: the map iterates
\* in key order and the first key with the largest count wins.
ModeOf(cells) ==
    LET keys == Range(cells)
        Count(k) == Cardinality({i \in DOMAIN cells : cells[i] = k})
    IN CHOOSE k \in keys :
         /\ \A x \in keys : Count(x) <= Count(k)
         /\ \A x \in keys : Count(x) = Count(k) => (x = k \/ StrLess(k, x))

ModeImputer_impute(t, column) ==
    IF ~HasColumn(t, column) THEN Throws(t)
    ELSE LET col_idx == find_column_index(t, column)
             cells == ValidCells(t, col_idx)
         IN IF Len(cells) = 0 THEN Done(t)
            ELSE Done(FillAndMark(t, col_idx, ModeOf(cells)))

ConstantImputer_impute(t, column, fill_value) ==
    IF ~HasColumn(t, column) THEN Throws(t)
    ELSE Done(FillAndMark(t, find_column_index(t, column), fill_value))

RECURSIVE ImputerForwardFill(_, _, _)
\* The loop of ForwardFillImputer::impute.
ImputerForwardFill(rows, col_idx, last_valid_value) ==
    IF rows = <<>> THEN <<>>
    ELSE LET row == rows[1]
             seen == IF col_idx < Len(row) /\ row[col_idx + 1] # <<>>
                     THEN row[col_idx + 1] ELSE last_valid_value
             filled == IF /\ col_idx < Len(row)
                          /\ row[col_idx + 1] = <<>>
                          /\ last_valid_value # <<>>
                       THEN SetCell(row, col_idx, last_valid_value) ELSE row
         IN <<filled>> \o ImputerForwardFill(Tail(rows), col_idx, seen)

ForwardFillImputer_impute(t, column) ==
    IF ~HasColumn(t, column) THEN Throws(t)
    ELSE Done(update_stats_after_modification(
           [t EXCEPT !.data_values =
               ImputerForwardFill(t.data_values, find_column_index(t, column), <<>>)]))

RECURSIVE NextValid(_, _, _, _, _)
\* The first loop of BackwardFillImputer::impute, from the last row to the
\* first: next_valid[i] is the nearest non-empty cell at or below row i,
\* recorded only for the rows that hold the cell.
NextValid(rows, col_idx, i, next_valid_value, next_valid) ==
    IF i < 0 THEN next_valid
    ELSE IF col_idx < Len(rows[i + 1])
    THEN LET v == IF rows[i + 1][col_idx + 1] # <<>>
                  THEN rows[i + 1][col_idx + 1] ELSE next_valid_value
         IN NextValid(rows, col_idx, i - 1, v, [next_valid EXCEPT ![i + 1] = v])
    ELSE NextValid(rows, col_idx, i - 1, next_valid_value, next_valid)

BackwardFillImputer_impute(t, column) ==
    IF ~HasColumn(t, column) THEN Throws(t)
    ELSE LET col_idx == find_column_index(t, column)
             rows == t.data_values
             next_valid == NextValid(rows, col_idx, Len(rows) - 1, <<>>,
                                     [i \in DOMAIN rows |-> <<>>])
         IN Done(update_stats_after_modification(
              [t EXCEPT !.data_values =
                  [i \in DOMAIN rows |->
                      IF /\ col_idx < Len(rows[i])
                         /\ rows[i][col_idx + 1] = <<>>
                         /\ next_valid[i] # <<>>
                      THEN SetCell(rows[i], col_idx, next_valid[i])
                      ELSE rows[i]]]))

\* LinearInterpolationImputer.  The loop bound data_values.size() - 1 is
\* computed on size_t: on a table without rows it wraps to the largest
\* size_t, the loop starts at row 1 of an empty vector and reads past its
\* storage until the process ends.
LinearInterpolationImputer_impute(t, column) ==
    IF ~HasColumn(t, column) THEN Throws(t)
    ELSE LET col_idx == find_column_index(t, column)
         IN IF t.column_types[col_idx + 1] = DataType_STRING THEN Throws(t)
            ELSE IF Len(t.data_values) = 0 THEN Crashes(t)
            ELSE Done(update_stats_after_modification(
                   [t EXCEPT !.data_values = LinearFill(t.data_values, col_idx, 1)]))

(***************************************************************************)
(* Sorting.                                                                *)
(***************************************************************************)
\* The comparator of sort_values(col_name, ascending).
SortLess(a, b, col_idx, ascending) ==
    IF col_idx >= Len(a) \/ col_idx >= Len(b) THEN FALSE
    ELSE IF ascending THEN StrLess(a[col_idx + 1], b[col_idx + 1])
    ELSE StrLess(b[col_idx + 1], a[col_idx + 1])

\* The orders std::ranges::sort may leave n rows in, each as the sequence
\* of the original (1-based) positions.  The sort is not stable: rows the
\* comparator does not order may come out either way.  When some row is
\* too short to hold the key cell the comparator is no strict weak
\* ordering and every arrangement can come out.
SortOrders(rows, col_idx, ascending) ==
    LET n == Len(rows)
        perms == {p \in [1..n -> 1..n] : \A i, j \in 1..n : i # j => p[i] # p[j]}
    IN IF \E r \in 1..n : col_idx >= Len(rows[r]) THEN perms
       ELSE {p \in perms :
               \A i, j \in 1..n :
                  i < j => ~SortLess(rows[p[j]], rows[p[i]], col_idx, ascending)}

\* sort_values(col_name, ascending), order being the arrangement the sort
\* arrives at (one of SortOrders).
sort_values(t, col_name, ascending, order) ==
    IF ~HasColumn(t, col_name) THEN Throws(t)
    ELSE Done(update_stats_after_modification(
           [t EXCEPT !.data_values =
               [i \in DOMAIN t.data_values |-> t.data_values[order[i]]]]))

(***************************************************************************)
(* Data transformation.                                                    *)
(***************************************************************************)
\* The std::function values apply_function is called with in the model:
\* "clear" returns the empty string, "one" the text 1, "mark" appends k,
\* "same" returns its argument.
Funcs == {"clear", "one", "mark", "same"}

Call(func, value) ==
    IF func = "clear" THEN <<>>
    ELSE IF func = "one" THEN <<"1">>
    ELSE IF func = "mark" THEN Append(value, "k")
    ELSE value

apply_function(t, col_name, func) ==
    IF ~HasColumn(t, col_name) THEN Throws(t)
    ELSE LET col_idx == find_column_index(t, col_name)
         IN Done(update_stats_after_modification(
              [t EXCEPT !.data_values =
                  [i \in DOMAIN t.data_values |->
                      IF col_idx < Len(t.data_values[i])
                      THEN SetCell(t.data_values[i], col_idx,
                                   Call(func, t.data_values[i][col_idx + 1]))
                      ELSE t.data_values[i]]]))

\* label_encode: the label of a value is the number of distinct non-empty
\* values met before its first occurrence, going down the rows.
label_encode(t, col_name) ==
    IF ~HasColumn(t, col_name) THEN Throws(t)
    ELSE LET col_idx == find_column_index(t, col_name)
             rows == t.data_values
             Coded(i) == col_idx < Len(rows[i]) /\ rows[i][col_idx + 1] # <<>>
             First(i) == Coded(i) /\ \A j \in 1..(i - 1) :
                            ~(Coded(j) /\ rows[j][col_idx + 1] = rows[i][col_idx + 1])
             FirstOf(i) == CHOOSE j \in 1..i :
                              First(j) /\ rows[j][col_idx + 1] = rows[i][col_idx + 1]
             label_map(i) == Cardinality({j \in 1..(FirstOf(i) - 1) : First(j)})
         IN IF t.column_types[col_idx + 1] # DataType_STRING THEN Throws(t)
            ELSE Done([t EXCEPT
                   !.data_values =
                       [i \in DOMAIN rows |->
                           IF Coded(i)
                           THEN SetCell(rows[i], col_idx, to_string_int(label_map(i)))
                           ELSE rows[i]],
                   !.column_types[col_idx + 1] = DataType_INT])

\* astype sets the column's type and returns a copy of the table.
astype(t, col_name, dtype) ==
    IF ~HasColumn(t, col_name) THEN Throws(t)
    ELSE LET changed == [t EXCEPT
                           !.column_types[find_column_index(t, col_name) + 1] = dtype]
         IN Returns(changed, changed)

(***************************************************************************)
(* Operators that return a new table.                                      *)
(***************************************************************************)
RECURSIVE Flatten(_)
\* The concatenation of a sequence of sequences.
Flatten(ss) == IF ss = <<>> THEN <<>> ELSE ss[1] \o Flatten(Tail(ss))

\* The members of a sequence at the (1-based) positions in kept, in order.
Select(s, kept) == Flatten([i \in DOMAIN s |-> IF i \in kept THEN <<s[i]>> ELSE <<>>])

\* Without without its test: the member at skip is kept.
WithoutNothing(s, skip) == s

\* The members of a sequence whose 0-based position is not skip.
Without(s, skip) ==
    Flatten([i \in DOMAIN s |-> IF i - 1 # skip THEN <<s[i]>> ELSE <<>>])

\* A table made of features, types and rows, its statistics refreshed.
Refreshed(features, types, rows) ==
    update_stats_after_modification(
        vegaDataframe(features, rows, <<>>, types, <<>>))

\* filter_rows(condition): kept are the positions of the rows the
\* condition accepts.
filter_rows_if(t, kept) ==
    Returns(t, Refreshed(t.data_features, t.column_types, Select(t.data_values, kept)))

filter_rows(t, col_name, value) ==
    IF ~HasColumn(t, col_name) THEN Throws(t)
    ELSE LET col_idx == find_column_index(t, col_name)
             Keep(row) == col_idx < Len(row) /\ row[col_idx + 1] = value
         IN filter_rows_if(t, {i \in DOMAIN t.data_values : Keep(t.data_values[i])})

dropna(t, how) ==
    LET has_null(row) == \E i \in DOMAIN row : row[i] = <<>>
        all_null(row) == \A i \in DOMAIN row : row[i] = <<>>
        Keep(row) == \/ how = "any" /\ ~has_null(row)
                     \/ how = "all" /\ ~all_null(row)
    IN Returns(t, Refreshed(t.data_features, t.column_types,
                            Select(t.data_values,
                                   {i \in DOMAIN t.data_values : Keep(t.data_values[i])})))

\* merge(other, left_col, right_col, how).
merge(t, o, left_col, right_col, how) ==
    IF ~HasColumn(t, left_col) \/ ~HasColumn(o, right_col) THEN Throws(t)
    ELSE LET left_col_idx == find_column_index(t, left_col)
             right_col_idx == find_column_index(o, right_col)
             features ==
                 t.data_features \o
                 Select(o.data_features,
                        {i \in DOMAIN o.data_features : o.data_features[i] # right_col})
             types == t.column_types \o Without(o.column_types, right_col_idx)
             Matches(right_row, join_key) ==
                 right_col_idx < Len(right_row) /\ right_row[right_col_idx + 1] = join_key
             Merged(left_row, join_key) ==
                 Flatten([j \in DOMAIN o.data_values |->
                     IF Matches(o.data_values[j], join_key)
                     THEN <<left_row \o Without(o.data_values[j], right_col_idx)>>
                     ELSE <<>>])
             Padded(left_row) ==
                 left_row \o Without([i \in DOMAIN o.data_features |-> <<>>],
                                     right_col_idx)
             Inner(left_row) ==
                 IF left_col_idx < Len(left_row)
                 THEN Merged(left_row, left_row[left_col_idx + 1]) ELSE <<>>
             Left(left_row) ==
                 LET join_key == IF left_col_idx < Len(left_row)
                                 THEN left_row[left_col_idx + 1] ELSE <<>>
                     found == Merged(left_row, join_key)
                 IN IF found # <<>> THEN found ELSE <<Padded(left_row)>>
             rows == IF how = "inner"
                     THEN Flatten([i \in DOMAIN t.data_values |-> Inner(t.data_values[i])])
                     ELSE IF how = "left"
                     THEN Flatten([i \in DOMAIN t.data_values |-> Left(t.data_values[i])])
                     ELSE <<>>
         IN Returns(t, Refreshed(features, types, rows))

\* join(other, how): the positional join.
join(t, o, how) ==
    LET min_rows == IF Len(t.data_values) < Len(o.data_values)
                    THEN Len(t.data_values) ELSE Len(o.data_values)
        pad == [j \in DOMAIN o.data_features |-> <<>>]
        rows == [i \in DOMAIN t.data_values |->
                    IF i <= min_rows THEN t.data_values[i] \o o.data_values[i]
                    ELSE IF how = "left" THEN t.data_values[i] \o pad
                    ELSE t.data_values[i]]
    IN Returns(t, Refreshed(t.data_features \o o.data_features,
                            t.column_types \o o.column_types, rows))

RECURSIVE ConcatRows(_, _, _)
\* The axis = 0 loop of concat from dataframes[i] on; <<>> stands for the
\* exception it throws on a differing column list.
ConcatRows(acc, dataframes, i) ==
    IF i > Len(dataframes) THEN <<acc>>
    ELSE IF dataframes[i].data_features # acc.data_features THEN <<>>
    ELSE ConcatRows([acc EXCEPT !.data_values = @ \o dataframes[i].data_values],
                    dataframes, i + 1)

RECURSIVE ConcatColumns(_, _, _)
\* The axis = 1 loop of concat from dataframes[i] on; <<>> stands for the
\* exception it throws on a differing row count.
ConcatColumns(acc, dataframes, i) ==
    IF i > Len(dataframes) THEN <<acc>>
    ELSE IF Len(dataframes[i].data_values) # Len(acc.data_values) THEN <<>>
    ELSE ConcatColumns(
           [acc EXCEPT
              !.data_features = @ \o dataframes[i].data_features,
              !.column_types = @ \o dataframes[i].column_types,
              !.data_values = [r \in DOMAIN acc.data_values |->
                                  acc.data_values[r] \o dataframes[i].data_values[r]]],
           dataframes, i + 1)

\* concat(dataframes, axis, ignore_index): a static function; the record's
\* self is the first input (EmptyDf when there is none), which it copies.
concat(dataframes, axis) ==
    IF dataframes = <<>> THEN Returns(EmptyDf, EmptyDf)
    ELSE LET built == IF axis = 0 THEN ConcatRows(dataframes[1], dataframes, 2)
                      ELSE IF axis = 1 THEN ConcatColumns(dataframes[1], dataframes, 2)
                      ELSE <<dataframes[1]>>
         IN IF built = <<>> THEN Throws(dataframes[1])
            ELSE Returns(dataframes[1], update_stats_after_modification(built[1]))

\* rank(col_name, method): the (value, row index) pairs are sorted as
\* std::pair compares them, by value and then by row index, and the k-th
\* pair's row gets the rank k.
rank(t, col_name) ==
    IF ~HasColumn(t, col_name) THEN Throws(t)
    ELSE LET col_idx == find_column_index(t, col_name)
             rows == t.data_values
             Ranked(i) == /\ col_idx < Len(rows[i])
                          /\ rows[i][col_idx + 1] # <<>>
                          /\ ~stod_throws(rows[i][col_idx + 1])
             Val(i) == stod(rows[i][col_idx + 1])
             Before(j, i) == Val(j) < Val(i) \/ (Val(j) = Val(i) /\ j < i)
             rank_column ==
                 [i \in DOMAIN rows |->
                     IF Ranked(i)
                     THEN to_string_int(
                            Cardinality({j \in DOMAIN rows : Ranked(j) /\ Before(j, i)}) + 1)
                     ELSE <<>>]
         IN IF t.column_types[col_idx + 1] = DataType_STRING THEN Throws(t)
            ELSE Returns(t, add_column(t, col_name \o "_rank", rank_column).self)

RECURSIVE SortStrings(_)
\* The members of a std::set<std::string> in its iteration order.
SortStrings(S) ==
    IF S = {} THEN <<>>
    ELSE LET m == CHOOSE x \in S : \A y \in S : y = x \/ StrLess(x, y)
         IN <<m>> \o SortStrings(S \ {m})

RECURSIVE AddIndicators(_, _, _, _)
\* The loop of one_hot_encode over the unique values: one add_column each,
\* the indicator being computed on the source table src.
AddIndicators(acc, src, col_name, unique_values) ==
    IF unique_values = <<>> THEN acc
    ELSE LET value == unique_values[1]
             col_idx == find_column_index(src, col_name)
             new_col_values ==
                 [i \in DOMAIN src.data_values |->
                     IF /\ col_idx < Len(src.data_values[i])
                        /\ src.data_values[i][col_idx + 1] = value
                     THEN <<"1">> ELSE <<"0">>]
         IN AddIndicators(
              add_column(acc, col_name \o "_" \o Str(value), new_col_values).self,
              src, col_name, Tail(unique_values))

one_hot_encode(t, col_name) ==
    IF ~HasColumn(t, col_name) THEN Throws(t)
    ELSE LET col_idx == find_column_index(t, col_name)
             unique_values == SortStrings(Range(ValidCells(t, col_idx)))
         IN IF t.column_types[col_idx + 1] # DataType_STRING THEN Throws(t)
            ELSE Returns(t, drop_column(
                              AddIndicators(t, t, col_name, unique_values),
                              col_name).self)

transpose(t) ==
    Returns(t, Refreshed(
        [i \in DOMAIN t.data_values |-> "row_" \o Str(to_string_int(i - 1))],
        [i \in DOMAIN t.data_values |-> DataType_STRING],
        [col \in DOMAIN t.data_features |->
            [row \in DOMAIN t.data_values |->
                IF col <= Len(t.data_values[row])
                THEN t.data_values[row][col] ELSE <<>>]]))

(***************************************************************************)
(* Statistics.  A statistic either throws or yields a double.              *)
(***************************************************************************)
Yields(value) == [threw |-> FALSE, value |-> value]

StatThrows == [threw |-> TRUE, value |-> 0]

RECURSIVE MinOf(_)
MinOf(values) ==
    IF Len(values) = 1 THEN values[1]
    ELSE LET m == MinOf(Tail(values)) IN IF values[1] < m THEN values[1] ELSE m

RECURSIVE MaxOf(_)
MaxOf(values) ==
    IF Len(values) = 1 THEN values[1]
    ELSE LET m == MaxOf(Tail(values)) IN IF values[1] > m THEN values[1] ELSE m

mean(t, col_name) ==
    IF ~HasColumn(t, col_name) THEN StatThrows
    ELSE LET col_idx == find_column_index(t, col_name)
             values == ParsedValues(t, col_idx)
         IN IF t.column_types[col_idx + 1] = DataType_STRING THEN StatThrows
            ELSE IF Len(values) = 0 THEN StatThrows
            ELSE Yields(RoundDiv(SumSeq(values), Len(values)))

median(t, col_name) ==
    IF ~HasColumn(t, col_name) THEN StatThrows
    ELSE LET col_idx == find_column_index(t, col_name)
             values == ParsedValues(t, col_idx)
         IN IF t.column_types[col_idx + 1] = DataType_STRING THEN StatThrows
            ELSE IF values = <<>> THEN StatThrows
            ELSE Yields(MedianOf(SortNumbers(values)))

min(t, col_name) ==
    IF ~HasColumn(t, col_name) THEN StatThrows
    ELSE LET col_idx == find_column_index(t, col_name)
             values == ParsedValues(t, col_idx)
             found == values # <<>>
         IN IF t.column_types[col_idx + 1] = DataType_STRING THEN StatThrows
            ELSE IF ~found THEN StatThrows
            ELSE Yields(MinOf(values))

max(t, col_name) ==
    IF ~HasColumn(t, col_name) THEN StatThrows
    ELSE LET col_idx == find_column_index(t, col_name)
             values == ParsedValues(t, col_idx)
             found == values # <<>>
         IN IF t.column_types[col_idx + 1] = DataType_STRING THEN StatThrows
            ELSE IF ~found THEN StatThrows
            ELSE Yields(MaxOf(values))

sum(t, col_name) ==
    IF ~HasColumn(t, col_name) THEN StatThrows
    ELSE LET col_idx == find_column_index(t, col_name)
         IN IF t.column_types[col_idx + 1] = DataType_STRING THEN StatThrows
            ELSE Yields(SumSeq(ParsedValues(t, col_idx)))

\* std_dev with count < 1 in place of count <= 1.
std_dev_throws_below_one(t, col_name) ==
    IF ~HasColumn(t, col_name) THEN TRUE
    ELSE LET col_idx == find_column_index(t, col_name)
             count == Len(ParsedValues(t, col_idx))
         IN IF t.column_types[col_idx + 1] = DataType_STRING THEN TRUE
            ELSE IF mean(t, col_name).threw THEN TRUE
            ELSE count < 1

\* Whether std_dev throws: on an unknown or a string column, when mean
\* throws, and when count <= 1.  The square root it returns otherwise is
\* not computed here.
std_dev_throws(t, col_name) ==
    IF ~HasColumn(t, col_name) THEN TRUE
    ELSE LET col_idx == find_column_index(t, col_name)
             count == Len(ParsedValues(t, col_idx))
         IN IF t.column_types[col_idx + 1] = DataType_STRING THEN TRUE
            ELSE IF mean(t, col_name).threw THEN TRUE
            ELSE count <= 1

\* variance is std_dev squared: it throws when std_dev does.
variance_throws(t, col_name) == std_dev_throws(t, col_name)

\* fillna_with_imputer(col_name, imputer): the virtual call to the
\* imputer's strategy; fill_value is the ConstantImputer's member.
fillna_with_imputer(t, col_name, imputer) ==
    IF imputer.kind = "mean" THEN MeanImputer_impute(t, col_name)
    ELSE IF imputer.kind = "median" THEN MedianImputer_impute(t, col_name)
    ELSE IF imputer.kind = "mode" THEN ModeImputer_impute(t, col_name)
    ELSE IF imputer.kind = "constant"
    THEN ConstantImputer_impute(t, col_name, imputer.fill_value)
    ELSE IF imputer.kind = "ffill" THEN ForwardFillImputer_impute(t, col_name)
    ELSE IF imputer.kind = "bfill" THEN BackwardFillImputer_impute(t, col_name)
    ELSE LinearInterpolationImputer_impute(t, col_name)

(***************************************************************************)
(* The inputs the calls are made with.                                     *)
(***************************************************************************)
\* The names ingestion gives the columns, in order.
HeaderNames == <<"a", "b", "c", "d">>

\* The cells of an ingested file.
FileCells == {<<>>, <<"1">>, <<"k">>}

\* The cells passed as arguments.
ArgCells == {<<>>, <<"2">>, <<"k">>}

\* The column names looked up, and the names given to new columns.
LookupNames == {"a", "b"}

NewNames == {"a", "n"}

\* A value vector for a table of rows rows: every vector of the right
\* length over two cells, and one that is a cell too long.
ValueVectors(rows) ==
    SeqsOfLen({<<>>, <<"2">>}, rows) \cup {[i \in 1..(rows + 1) |-> <<"2">>]}

Imputers ==
    [kind : {"mean", "median", "mode", "ffill", "bfill", "linear"}, fill_value : {<<>>}]
      \cup [kind : {"constant"}, fill_value : {<<>>, <<"2">>}]

\* What the undefined insert can do: only where a row is shorter than pos
\* is there more than one outcome.
UBOutcomes(t, pos) ==
    IF \E i \in DOMAIN t.data_values : pos > Len(t.data_values[i])
    THEN [crash : BOOLEAN, junk : {<<>>, <<"u">>}]
    ELSE {[crash |-> FALSE, junk |-> <<>>]}

\* The second table of the binary operators.
Others ==
    {read_csv(<<"a", "n">>, << <<<<"1">>, <<"k">>>> >>)}

(***************************************************************************)
(* State.  df is the table the calls are made on, other a second table,    *)
(* result the table the last call returned, pre the value df had when the  *)
(* last call was made, last the last call and how it ended, calls the      *)
(* names of the calls made so far.                                         *)
(***************************************************************************)
NoCall ==
    [op |-> "none", col |-> "", pos |-> 0, len |-> 0,
     threw |-> FALSE, crashed |-> FALSE, value |-> 0]

Init ==
    /\ \E n \in 1..MaxCols :
         \E lines \in SeqsUpTo(SeqsOfLen(FileCells, n), MaxRows) :
            df = read_csv(SubSeq(HeaderNames, 1, n), lines)
    /\ other \in Others
    /\ result = EmptyDf
    /\ pre = df
    /\ last = NoCall
    /\ calls = <<>>

CanCall == Len(calls) < MaxSteps /\ ~last.crashed

\* A call on df that ended as the call record r says.
Called(op, col, pos, len, r) ==
    /\ df' = r.self
    /\ result' = r.ret
    /\ pre' = df
    /\ last' = [op |-> op, col |-> col, pos |-> pos, len |-> len,
                threw |-> r.threw, crashed |-> r.crashed, value |-> 0]
    /\ calls' = Append(calls, op)
    /\ UNCHANGED other

\* A statistic of df that ended as r says.
Computed(op, col, threw, value) ==
    /\ last' = [op |-> op, col |-> col, pos |-> 0, len |-> 0,
                threw |-> threw, crashed |-> FALSE,
                value |-> IF threw THEN 0 ELSE value]
    /\ pre' = df
    /\ result' = EmptyDf
    /\ calls' = Append(calls, op)
    /\ UNCHANGED <<df, other>>

(***************************************************************************)
(* The calls that change df in place.                                      *)
(***************************************************************************)
AddColumn ==
    /\ CanCall
    /\ \E col_name \in NewNames, values \in ValueVectors(Len(df.data_values)) :
         Called("add_column", col_name, 0, Len(values),
                add_column(df, col_name, values))

InsertColumn ==
    /\ CanCall
    /\ \E pos \in 0..(Len(df.data_features) + 1), col_name \in NewNames,
          values \in ValueVectors(Len(df.data_values)) :
         \E ub \in UBOutcomes(df, pos) :
            Called("insert_column", col_name, pos, Len(values),
                   insert_column(df, pos, col_name, values, ub))

DropColumn ==
    /\ CanCall
    /\ \E col_name \in LookupNames :
         Called("drop_column", col_name, 0, 0, drop_column(df, col_name))

RenameColumn ==
    /\ CanCall
    /\ \E old_name \in LookupNames, new_name \in NewNames :
         Called("rename_column", old_name, 0, 0,
                rename_column(df, old_name, new_name))

DropRow ==
    /\ CanCall
    /\ \E row_index \in 0..Len(df.data_values) :
         Called("drop_row", "", row_index, 0, drop_row(df, row_index))

FillnaValue ==
    /\ CanCall
    /\ \E col_name \in LookupNames, value \in ArgCells :
         Called("fillna_value", col_name, 0, 0, fillna_value(df, col_name, value))

FillnaMethod ==
    /\ CanCall
    /\ \E col_name \in LookupNames, method \in {"ffill", "bfill", "nearest"} :
         Called("fillna_method", col_name, 0, 0,
                fillna_method(df, col_name, method))

FillnaWithImputer ==
    /\ CanCall
    /\ \E col_name \in LookupNames, imputer \in Imputers :
         Called("impute", col_name, 0, 0,
                fillna_with_imputer(df, col_name, imputer))

SortValues ==
    /\ CanCall
    /\ \E col_name \in LookupNames, ascending \in BOOLEAN :
         \E order \in SortOrders(df.data_values,
                                 IF HasColumn(df, col_name)
                                 THEN find_column_index(df, col_name) ELSE 0,
                                 ascending) :
            Called("sort_values", col_name, 0, 0,
                   sort_values(df, col_name, ascending, order))

ApplyFunction ==
    /\ CanCall
    /\ \E col_name \in LookupNames, func \in Funcs :
         Called("apply_function", col_name, 0, 0,
                apply_function(df, col_name, func))

LabelEncode ==
    /\ CanCall
    /\ \E col_name \in LookupNames :
         Called("label_encode", col_name, 0, 0, label_encode(df, col_name))

Astype ==
    /\ CanCall
    /\ \E col_name \in LookupNames, dtype \in DataTypes :
         Called("astype", col_name, 0, 0, astype(df, col_name, dtype))

(***************************************************************************)
(* The calls that return a table or a number.                              *)
(***************************************************************************)
FilterRows ==
    /\ CanCall
    /\ \E col_name \in LookupNames, value \in {<<>>, <<"1">>} :
         Called("filter_rows", col_name, 0, 0, filter_rows(df, col_name, value))

Dropna ==
    /\ CanCall
    /\ \E how \in {"any", "all"} :
         Called("dropna", "", 0, 0, dropna(df, how))

Merge ==
    /\ CanCall
    /\ \E o \in {df, other}, left_col \in LookupNames, right_col \in LookupNames,
          how \in {"inner", "left", "outer"} :
         Called("merge", left_col, 0, 0, merge(df, o, left_col, right_col, how))

Join ==
    /\ CanCall
    /\ \E o \in {df, other}, how \in {"left", "inner"} :
         Called("join", how, 0, 0, join(df, o, how))

Concat ==
    /\ CanCall
    /\ \E dataframes \in {<<>>, <<df>>, <<df, df>>, <<df, other>>}, axis \in {0, 1} :
         LET r == concat(dataframes, axis)
         IN Called("concat", "", axis, Len(dataframes), [r EXCEPT !.self = df])

Rank ==
    /\ CanCall
    /\ \E col_name \in LookupNames :
         Called("rank", col_name, 0, 0, rank(df, col_name))

OneHotEncode ==
    /\ CanCall
    /\ \E col_name \in LookupNames :
         Called("one_hot_encode", col_name, 0, 0, one_hot_encode(df, col_name))

Transpose ==
    /\ CanCall
    /\ Called("transpose", "", 0, 0, transpose(df))

Mean ==
    /\ CanCall
    /\ \E col_name \in LookupNames :
         Computed("mean", col_name, mean(df, col_name).threw, mean(df, col_name).value)

Median ==
    /\ CanCall
    /\ \E col_name \in LookupNames :
         Computed("median", col_name,
                  median(df, col_name).threw, median(df, col_name).value)

Min ==
    /\ CanCall
    /\ \E col_name \in LookupNames :
         Computed("min", col_name, min(df, col_name).threw, min(df, col_name).value)

Max ==
    /\ CanCall
    /\ \E col_name \in LookupNames :
         Computed("max", col_name, max(df, col_name).threw, max(df, col_name).value)

Sum ==
    /\ CanCall
    /\ \E col_name \in LookupNames :
         Computed("sum", col_name, sum(df, col_name).threw, sum(df, col_name).value)

StdDev ==
    /\ CanCall
    /\ \E col_name \in LookupNames :
         Computed("std_dev", col_name, std_dev_throws(df, col_name), 0)

Variance ==
    /\ CanCall
    /\ \E col_name \in LookupNames :
         Computed("variance", col_name, variance_throws(df, col_name), 0)

Next ==
    \/ AddColumn \/ InsertColumn \/ DropColumn \/ RenameColumn \/ DropRow
    \/ FillnaValue \/ FillnaMethod \/ FillnaWithImputer \/ SortValues
    \/ ApplyFunction \/ LabelEncode \/ Astype
    \/ FilterRows \/ Dropna \/ Merge \/ Join \/ Concat \/ Rank \/ OneHotEncode
    \/ Transpose
    \/ Mean \/ Median \/ Min \/ Max \/ Sum \/ StdDev \/ Variance

Spec == Init /\ [][Next]_vars

(***************************************************************************)
(* Properties.                                                             *)
(***************************************************************************)
\* The last call returned normally.
Completed == last.op # "none" /\ ~last.threw /\ ~last.crashed

\* Every row has exactly as many cells as there are columns.
FullRows(t) == \A r \in DOMAIN t.data_values : Len(t.data_values[r]) = Len(t.data_features)

\* The rows (0-based) whose cell in column c (1-based) is the empty string.
EmptyRows(t, c) ==
    {r - 1 : r \in {q \in DOMAIN t.data_values :
                       c <= Len(t.data_values[q]) /\ t.data_values[q][c] = <<>>}}

\* The non-empty cells held in column c (1-based).
NonNullCells(t, c) ==
    {t.data_values[r][c] :
        r \in {q \in DOMAIN t.data_values :
                  c <= Len(t.data_values[q]) /\ t.data_values[q][c] # <<>>}}

Distinct(names) == \A i, j \in DOMAIN names : i # j => names[i] # names[j]

SameLengths(t) ==
    /\ Len(t.data_features) = Len(t.column_types)
    /\ Len(t.data_features) = Len(t.non_null_counts)
    /\ Len(t.data_features) = Len(t.null_positions)

\* What validate_dataframe checks of the rows.
NoLongRow(t) == \A r \in DOMAIN t.data_values : Len(t.data_values[r]) <= Len(t.data_features)

\* The calls that change the table by design.
StructuralMutators ==
    {"add_column", "insert_column", "drop_column", "rename_column", "drop_row",
     "fillna_value", "fillna_method", "impute", "sort_values"}

\* The calls that return a table.
TableOperators ==
    {"filter_rows", "dropna", "merge", "join", "concat", "rank",
     "one_hot_encode", "transpose", "astype"}

\* C1: on a table of full rows, after only completed in-place mutators
\* (structural mutators and apply_function), every column's null_positions
\* lists exactly the rows whose cell is empty and its non_null_counts is
\* the number of the other rows.
C1_StatsRecomputable ==
    ( /\ Range(calls) \subseteq StructuralMutators \cup {"apply_function"}
      /\ Completed
      /\ FullRows(df) )
    => /\ Len(df.null_positions) = Len(df.data_features)
       /\ Len(df.non_null_counts) = Len(df.data_features)
       /\ \A c \in DOMAIN df.data_features :
            /\ Range(df.null_positions[c]) = EmptyRows(df, c)
            /\ Len(df.null_positions[c]) = Cardinality(EmptyRows(df, c))
            /\ df.non_null_counts[c] =
                 Len(df.data_values) - Cardinality(EmptyRows(df, c))

\* C2: after only completed mutations (add_column, insert_column,
\* fillna_value, fillna_method, apply_function, label_encode, astype,
\* impute) the type of every column with a non-null cell is the largest
\* inferred type of its non-null cells, and where the call kept the column
\* list a column without non-null cell has the type it had.
C2_TypeIsLargestInferred ==
    ( /\ Range(calls) \subseteq
           {"add_column", "insert_column", "fillna_value", "fillna_method",
            "apply_function", "label_encode", "astype", "impute"}
      /\ Completed )
    => \A c \in DOMAIN df.data_features :
         LET inferred == {infer_data_type(v) : v \in NonNullCells(df, c)}
         IN /\ inferred # {} =>
                 /\ df.column_types[c] \in inferred
                 /\ \A x \in inferred : x <= df.column_types[c]
            /\ (inferred = {} /\ df.data_features = pre.data_features) =>
                 df.column_types[c] = pre.column_types[c]

\* C3: in a table whose statistics an operation has just refreshed, the
\* non-null count and the number of null positions of every column add up
\* to the row count, short rows included.
C3_CountsAddUp ==
    LET AddUp(t) ==
          \A c \in DOMAIN t.non_null_counts :
             t.non_null_counts[c] + Len(t.null_positions[c]) = Len(t.data_values)
    IN /\ ( Completed /\ last.op \in {"drop_row", "fillna_value", "fillna_method",
                                       "sort_values", "apply_function"} )
            => AddUp(df)
       /\ ( Completed /\ last.op \in {"join", "merge", "concat", "filter_rows",
                                       "dropna", "transpose"} )
            => AddUp(result)

\* C4: starting from tables with unique column names, after add_column,
\* insert_column and rename_column calls the table's column names are
\* pairwise distinct, and so are those of a table that merge, join,
\* concat(axis=1), one_hot_encode or rank then returns.
C4_ColumnNamesDistinct ==
    ( Range(calls) \subseteq
        {"add_column", "insert_column", "rename_column",
         "merge", "join", "concat", "one_hot_encode", "rank"} )
    => /\ Distinct(df.data_features)
       /\ ( /\ Completed
            /\ last.op \in {"merge", "join", "one_hot_encode", "rank"}
                 \/ (last.op = "concat" /\ last.pos = 1) )
            => Distinct(result.data_features)

\* C5: after every completed mutator the table's four per-column sequences
\* have the same length, and so have those of every table an operator
\* returns.
C5_PerColumnLengthsAgree ==
    /\ ( Completed /\ last.op \in StructuralMutators
                                    \cup {"apply_function", "label_encode", "astype"} )
         => SameLengths(df)
    /\ ( Completed /\ last.op \in TableOperators ) => SameLengths(result)

\* C6: starting from tables without a row longer than the column list,
\* no add/insert/drop column or drop row call leaves such a row, and no
\* table that merge, join, concat or transpose returns has one.
C6_NoRowLongerThanColumns ==
    ( Range(calls) \subseteq
        {"add_column", "insert_column", "drop_column", "drop_row",
         "merge", "join", "concat", "transpose"} )
    => /\ NoLongRow(df)
       /\ ( Completed /\ last.op \in {"merge", "join", "concat", "transpose"} )
            => NoLongRow(result)

\* C7: a call other than a structural mutator leaves the table it is made
\* on with the columns, cells, column types and shape it had.
C7_OtherCallsLeaveTableUnchanged ==
    ( last.op # "none" /\ last.op \notin StructuralMutators )
    => /\ df.data_features = pre.data_features
       /\ df.data_values = pre.data_values
       /\ df.column_types = pre.column_types
       /\ shape(df) = shape(pre)

CheckedCalls ==
    {"add_column", "insert_column", "drop_column", "rename_column", "drop_row"}

\* C9: add_column with a value vector of the wrong length, insert_column
\* with one or with pos beyond the column count, drop_column and
\* rename_column with an unknown name, and drop_row with an index at or
\* beyond the row count throw, and a throwing structural call leaves the
\* columns, cells, column types and null statistics as they were.
C9_StructuralErrorsLeaveTableUntouched ==
    /\ ( last.op = "add_column" /\ last.len # Len(pre.data_values) ) => last.threw
    /\ ( /\ last.op = "insert_column"
         /\ last.len # Len(pre.data_values) \/ last.pos > Len(pre.data_features) )
         => last.threw
    /\ ( last.op \in {"drop_column", "rename_column"} /\ ~HasColumn(pre, last.col) )
         => last.threw
    /\ ( last.op = "drop_row" /\ last.pos >= Len(pre.data_values) ) => last.threw
    /\ ( last.op \in CheckedCalls /\ last.threw ) => df = pre

\* C9 witness: an insert_column call with a position beyond the column
\* count has thrown on a table that has rows.
C9_InsertBeyondColumnsThrew ==
    /\ last.op = "insert_column"
    /\ last.pos > Len(pre.data_features)
    /\ last.threw
    /\ pre.data_values # <<>>
    /\ df = pre

\* The number of cells of column c (1-based) that are non-empty and that
\* std::stod accepts.
Parseable(t, c) ==
    Cardinality({r \in DOMAIN t.data_values :
                    /\ c <= Len(t.data_values[r])
                    /\ t.data_values[r][c] # <<>>
                    /\ ~stod_throws(t.data_values[r][c])})

\* C10: on a STRING column mean, median, min, max, sum, std_dev and
\* variance throw; on an INT or FLOAT column mean, median, min and max
\* throw exactly when no cell is non-empty and parseable, std_dev exactly
\* when fewer than two are, and sum does not throw.
C10_StatisticsFailureConditions ==
    ( /\ last.op \in {"mean", "median", "min", "max", "sum", "std_dev", "variance"}
      /\ HasColumn(df, last.col) )
    => LET c == find_column_index(df, last.col) + 1
       IN IF df.column_types[c] = DataType_STRING THEN last.threw
          ELSE /\ last.op \in {"mean", "median", "min", "max"}
                    => (last.threw <=> Parseable(df, c) = 0)
               /\ last.op = "std_dev" => (last.threw <=> Parseable(df, c) < 2)
               /\ last.op = "sum" => ~last.threw

\* C10 witness: mean has returned on a numeric column that holds an
\* unparseable cell next to a parseable one.
C10_MeanSkippedUnparseableCell ==
    /\ last.op = "mean"
    /\ ~last.threw
    /\ HasColumn(df, last.col)
    /\ LET c == find_column_index(df, last.col) + 1
       IN /\ df.column_types[c] # DataType_STRING
          /\ Parseable(df, c) = 1
          /\ \E r \in DOMAIN df.data_values :
                /\ df.data_values[r][c] # <<>>
                /\ stod_throws(df.data_values[r][c])

(***************************************************************************)
(* Grouping.  A std::map is the sequence of its (key, value) entries in    *)
(* key order.                                                              *)
(***************************************************************************)
RECURSIVE VecLess(_, _)
\* operator< of std::vector<std::string>: lexicographic.
VecLess(a, b) ==
    IF b = <<>> THEN FALSE
    ELSE IF a = <<>> THEN TRUE
    ELSE IF a[1] # b[1] THEN StrLess(a[1], b[1])
    ELSE VecLess(Tail(a), Tail(b))

RECURSIVE SortVectors(_)
\* The keys of a std::map<std::vector<std::string>, ...> in its order.
SortVectors(S) ==
    IF S = {} THEN <<>>
    ELSE LET m == CHOOSE x \in S : \A y \in S : y = x \/ VecLess(x, y)
         IN <<m>> \o SortVectors(S \ {m})

\* groupby(col_name): a row enters a group only if (col_idx < row.size()).
groupby(t, col_name) ==
    IF ~HasColumn(t, col_name) THEN Throws(t)
    ELSE LET col_idx == find_column_index(t, col_name)
             rows == t.data_values
             held == {i \in DOMAIN rows : col_idx < Len(rows[i])}
             keys == SortStrings({rows[i][col_idx + 1] : i \in held})
             Group(key) ==
                 Refreshed(t.data_features, t.column_types,
                           Select(rows, {i \in held : rows[i][col_idx + 1] = key}))
         IN Returns(t, [k \in DOMAIN keys |->
                          [key |-> keys[k], group |-> Group(keys[k])]])

\* groupby(col_names): the key of a row is the vector of its cells in the
\* key columns, a cell the row is too short to hold reading as "".
groupby_list(t, col_names) ==
    IF \E n \in DOMAIN col_names : ~HasColumn(t, col_names[n]) THEN Throws(t)
    ELSE LET col_indices == [n \in DOMAIN col_names |->
                                find_column_index(t, col_names[n])]
             rows == t.data_values
             KeyOf(row) == [n \in DOMAIN col_indices |->
                               IF col_indices[n] < Len(row)
                               THEN row[col_indices[n] + 1] ELSE <<>>]
             keys == SortVectors({KeyOf(rows[i]) : i \in DOMAIN rows})
             Group(key) ==
                 Refreshed(t.data_features, t.column_types,
                           Select(rows, {i \in DOMAIN rows : KeyOf(rows[i]) = key}))
         IN Returns(t, [k \in DOMAIN keys |->
                          [key |-> keys[k], group |-> Group(keys[k])]])

\* The statement df = df.join(other, how).
JoinAssign ==
    /\ CanCall
    /\ \E how \in {"left", "inner"} :
         LET r == join(df, other, how)
         IN Called("join_assign", how, 0, 0, [r EXCEPT !.self = r.ret])

GroupBy ==
    /\ CanCall
    /\ \E col_name \in {"a", "n"} :
         Called("groupby", col_name, 0, 0, groupby(df, col_name))

GroupByList ==
    /\ CanCall
    /\ \E col_names \in {<<"a">>, <<"n">>, <<"a", "n">>, <<"n", "b">>} :
         Called("groupby_list", "", 0, Len(col_names), groupby_list(df, col_names))

NextGroupby == JoinAssign \/ GroupBy \/ GroupByList

SpecGroupby == Init /\ [][NextGroupby]_vars

\* The number of rows of rows that equal row.
Copies(rows, row) == Cardinality({i \in DOMAIN rows : rows[i] = row})

RECURSIVE CopiesInGroups(_, _)
\* The number of rows equal to row in all the groups together.
CopiesInGroups(groups, row) ==
    IF groups = <<>> THEN 0
    ELSE Copies(groups[1].group.data_values, row) + CopiesInGroups(Tail(groups), row)

\* C11: the groups groupby returns, on one key column or on a list, hold
\* every source row (short rows included) as often as the source does,
\* and no two groups have the same key.
C11_GroupbyPartitionsRows ==
    ( last.op \in {"groupby", "groupby_list"} /\ Completed )
    => /\ \A i \in DOMAIN df.data_values :
            CopiesInGroups(result, df.data_values[i])
              = Copies(df.data_values, df.data_values[i])
       /\ \A g, k \in DOMAIN result : g # k => result[g].key # result[k].key

(***************************************************************************)
(* Merging on a list of key columns.                                       *)
(***************************************************************************)
\* The members of a sequence whose 0-based position is not in skips
\* (std::ranges::find(right_col_indices, i) == end()).
WithoutAll(s, skips) == Select(s, {i \in DOMAIN s : (i - 1) \notin skips})

\* merge(other, on, how): only how == "inner" produces rows.
merge_on(t, o, on, how) ==
    IF \E n \in DOMAIN on : ~HasColumn(t, on[n]) \/ ~HasColumn(o, on[n]) THEN Throws(t)
    ELSE LET left_col_indices == [n \in DOMAIN on |-> find_column_index(t, on[n])]
             right_col_indices == [n \in DOMAIN on |-> find_column_index(o, on[n])]
             Key(row, col_indices) ==
                 [n \in DOMAIN col_indices |->
                     IF col_indices[n] < Len(row) THEN row[col_indices[n] + 1] ELSE <<>>]
             Merged(left_row) ==
                 Flatten([j \in DOMAIN o.data_values |->
                     IF Key(left_row, left_col_indices)
                          = Key(o.data_values[j], right_col_indices)
                     THEN <<left_row \o WithoutAll(o.data_values[j],
                                                   Range(right_col_indices))>>
                     ELSE <<>>])
             rows == IF how = "inner"
                     THEN Flatten([i \in DOMAIN t.data_values |-> Merged(t.data_values[i])])
                     ELSE <<>>
         IN Returns(t, Refreshed(
                t.data_features \o WithoutAll(o.data_features, Range(right_col_indices)),
                t.column_types \o WithoutAll(o.column_types, Range(right_col_indices)),
                rows))

\* A call on df as Called, the arguments kept in last.args.
CalledWith(op, args, r) ==
    /\ df' = r.self
    /\ result' = r.ret
    /\ pre' = df
    /\ last' = [op |-> op, col |-> "", pos |-> 0, len |-> 0,
                threw |-> r.threw, crashed |-> r.crashed, value |-> 0,
                args |-> args]
    /\ calls' = Append(calls, op)
    /\ UNCHANGED other

\* No call has been made yet.
Fresh == calls = <<>>

\* The left and the right table of the merges: columns key, v1 and key, v2.
LeftRows == {<<key, v1>> : key \in {<<>>, <<"k">>, <<"j">>}, v1 \in {<<"1">>, <<"2">>}}

RightRows == {<<key, <<"9">>>> : key \in {<<"k">>, <<"j">>}}

InitMerge ==
    /\ \E lines \in SeqsUpTo(LeftRows, MaxRows) : df = read_csv(<<"key", "v1">>, lines)
    /\ \E lines \in SeqsUpTo(RightRows, MaxRows) : other = read_csv(<<"key", "v2">>, lines)
    /\ result = EmptyDf
    /\ pre = df
    /\ last = NoCall
    /\ calls = <<>>

MergeOnColumn ==
    /\ Fresh
    /\ \E left_col \in {"key", "v1"}, right_col \in {"key", "v2"},
          how \in {"inner", "left", "outer"} :
         CalledWith("merge",
                    [left |-> <<left_col>>, right |-> <<right_col>>, how |-> how],
                    merge(df, other, left_col, right_col, how))

MergeOnList ==
    /\ Fresh
    /\ \E on \in {<<>>, <<"key">>, <<"v1">>, <<"key", "key">>},
          how \in {"inner", "left", "outer"} :
         CalledWith("merge_on", [left |-> on, right |-> on, how |-> how],
                    merge_on(df, other, on, how))

NextMerge == MergeOnColumn \/ MergeOnList

SpecMerge == InitMerge /\ [][NextMerge]_vars

\* The 1-based positions of the key columns last.args names in the left
\* and in the right table.
LeftKeys == [n \in DOMAIN last.args.left |-> find_column_index(df, last.args.left[n]) + 1]

RightKeys ==
    [n \in DOMAIN last.args.right |-> find_column_index(other, last.args.right[n]) + 1]

\* The pairs (left row, right row) whose key cells are equal texts.
MatchingPairs ==
    {p \in (DOMAIN df.data_values) \X (DOMAIN other.data_values) :
        \A n \in DOMAIN LeftKeys :
           df.data_values[p[1]][LeftKeys[n]] = other.data_values[p[2]][RightKeys[n]]}

\* The 1-based positions of other's columns that are no key column.
NonKeyPositions == {c \in DOMAIN other.data_features : c \notin Range(RightKeys)}

\* The left row of the pair followed by the right row's non-key cells.
Combined(p) ==
    df.data_values[p[1]] \o Select(other.data_values[p[2]], NonKeyPositions)

\* The tables A and B of the scenario.
ScenarioA == read_csv(<<"key", "v1">>, << <<<<"k">>, <<"1">>>>, <<<<"k">>, <<"2">>>> >>)

ScenarioB == read_csv(<<"key", "v2">>, << <<<<"k">>, <<"9">>>> >>)

\* C12: an inner merge, on one key pair or on a list of key columns,
\* returns one combined row per matching pair, ordered by left row and
\* then by right row, under the left columns followed by the right
\* non-key columns; A merged with B on key gives [k,1,9] and [k,2,9].
C12_InnerMergeCombinesMatchingPairs ==
    ( last.op \in {"merge", "merge_on"} /\ Completed /\ last.args.how = "inner" )
    => /\ Len(result.data_values) = Cardinality(MatchingPairs)
       /\ \A p \in MatchingPairs :
            LET before == {q \in MatchingPairs :
                              q[1] < p[1] \/ (q[1] = p[1] /\ q[2] < p[2])}
            IN result.data_values[Cardinality(before) + 1] = Combined(p)
       /\ result.data_features
            = df.data_features \o Select(other.data_features, NonKeyPositions)
       /\ ( df = ScenarioA /\ other = ScenarioB
            /\ last.args.left = <<"key">> /\ last.args.right = <<"key">> )
            => result.data_values
                 = << <<<<"k">>, <<"1">>, <<"9">>>>, <<<<"k">>, <<"2">>, <<"9">>>> >>

\* C12 witness: A has been merged with B on key, how = "inner", and the
\* call returned two rows.
C12_ScenarioMerged ==
    /\ last.op = "merge"
    /\ Completed
    /\ last.args = [left |-> <<"key">>, right |-> <<"key">>, how |-> "inner"]
    /\ df = ScenarioA
    /\ other = ScenarioB
    /\ Len(result.data_values) = 2

\* The right rows that match left row i.
MatchesOf(i) == {p \in MatchingPairs : p[1] = i}

\* Left row i followed by one empty value per non-key right column.
PaddedLeft(i) == df.data_values[i] \o [c \in 1..Cardinality(NonKeyPositions) |-> <<>>]

\* C13: a left merge, on one key pair or on a list of key columns, returns
\* for every left row at least one row that starts with it, and for the
\* left rows without a matching right row exactly one row each, the left
\* row padded with an empty value per non-key right column.
C13_LeftMergeKeepsEveryLeftRow ==
    ( last.op \in {"merge", "merge_on"} /\ Completed /\ last.args.how = "left" )
    => /\ Len(result.data_values) >= Len(df.data_values)
       /\ \A i \in DOMAIN df.data_values :
            /\ \E r \in DOMAIN result.data_values :
                  /\ Len(result.data_values[r]) >= Len(df.data_values[i])
                  /\ SubSeq(result.data_values[r], 1, Len(df.data_values[i]))
                       = df.data_values[i]
            /\ MatchesOf(i) = {} =>
                  Copies(result.data_values, PaddedLeft(i))
                    = Cardinality({q \in DOMAIN df.data_values :
                                      /\ df.data_values[q] = df.data_values[i]
                                      /\ MatchesOf(q) = {}})

(***************************************************************************)
(* Concatenation of tables that were ingested or joined.                   *)
(***************************************************************************)
ConcatTables ==
    /\ CanCall
    /\ \E dataframes \in {<<>>, <<df>>, <<df, df>>, <<df, other>>, <<other, df>>,
                          <<df, df, other>>},
          axis \in {0, 1} :
         CalledWith("concat", [dataframes |-> dataframes, axis |-> axis],
                    [concat(dataframes, axis) EXCEPT !.self = df])

NextConcat == JoinAssign \/ ConcatTables

SpecConcat == Init /\ [][NextConcat]_vars

RECURSIVE ColumnsBefore(_, _)
\* The number of columns of the first k - 1 tables.
ColumnsBefore(dataframes, k) ==
    IF k <= 1 THEN 0
    ELSE Len(dataframes[k - 1].data_features) + ColumnsBefore(dataframes, k - 1)

\* C14: concat with axis 0 throws when an input's column list differs
\* from the first input's and otherwise returns all rows in input order
\* under the first input's schema; with axis 1 it throws when an input's
\* row count differs from the first input's and otherwise every input's
\* columns stand, cell by cell, behind those of the inputs before it; a
\* concat that throws returns no table and leaves its input as it was.
C14_ConcatChecksAndAppends ==
    ( last.op = "concat" /\ last.args.dataframes # <<>> )
    => LET ds == last.args.dataframes
           first == ds[1]
       IN /\ last.args.axis = 0 =>
               IF \E k \in DOMAIN ds : ds[k].data_features # first.data_features
               THEN last.threw
               ELSE /\ ~last.threw
                    /\ result.data_features = first.data_features
                    /\ result.column_types = first.column_types
                    /\ result.data_values
                         = Flatten([k \in DOMAIN ds |-> ds[k].data_values])
          /\ last.args.axis = 1 =>
               IF \E k \in DOMAIN ds : Len(ds[k].data_values) # Len(first.data_values)
               THEN last.threw
               ELSE /\ ~last.threw
                    /\ result.data_features
                         = Flatten([k \in DOMAIN ds |-> ds[k].data_features])
                    /\ Len(result.data_values) = Len(first.data_values)
                    /\ \A k \in DOMAIN ds, r \in DOMAIN first.data_values :
                          \A c \in DOMAIN ds[k].data_features :
                             CellAt(result, r - 1, ColumnsBefore(ds, k) + c - 1)
                               = CellAt(ds[k], r - 1, c - 1)
          /\ last.threw => (result = EmptyDf /\ df = pre)

(***************************************************************************)
(* Duplicate rows.                                                         *)
(***************************************************************************)
\* The columns duplicated compares: all of them when subset is empty.
check_columns(t, subset) ==
    IF subset = <<>> THEN [i \in DOMAIN t.data_features |-> i - 1]
    ELSE [n \in DOMAIN subset |-> find_column_index(t, subset[n])]

\* The key of a row: its cells in the compared columns, a cell the row is
\* too short to hold reading as "".
DuplicateKey(row, columns) ==
    [n \in DOMAIN columns |->
        IF columns[n] < Len(row) THEN row[columns[n] + 1] ELSE <<>>]

\* duplicated: a row is marked when its key was seen in a row before it
\* (keep_first) or, in the backward pass, in a row behind it.
duplicated(t, subset, keep_first) ==
    IF \E n \in DOMAIN subset : ~HasColumn(t, subset[n])
    THEN [threw |-> TRUE, mask |-> <<>>]
    ELSE LET rows == t.data_values
             columns == check_columns(t, subset)
             key == [i \in DOMAIN rows |-> DuplicateKey(rows[i], columns)]
         IN [threw |-> FALSE,
             mask |-> [row_idx \in DOMAIN rows |->
                         IF keep_first
                         THEN key[row_idx] \in {key[j] : j \in 1..(row_idx - 1)}
                         ELSE key[row_idx] \in {key[j] : j \in (row_idx + 1)..Len(rows)}]]

\* Unmarked without its test: every position.
EveryPosition(mask) == DOMAIN mask

\* The positions duplicate_mask leaves unmarked.
Unmarked(mask) == {i \in DOMAIN mask : ~mask[i]}

drop_duplicates(t, subset, keep_first) ==
    LET duplicate_mask == duplicated(t, subset, keep_first)
    IN IF duplicate_mask.threw THEN Throws(t)
       ELSE Returns(t, Refreshed(t.data_features, t.column_types,
                                 Select(t.data_values, Unmarked(duplicate_mask.mask))))

\* The subsets of column names the calls are made with.
Subsets == {<<>>, <<"a">>, <<"n">>, <<"a", "n">>, <<"b">>, <<"c">>}

Duplicated ==
    /\ CanCall
    /\ \E subset \in Subsets, keep_first \in BOOLEAN :
         LET d == duplicated(df, subset, keep_first)
         IN CalledWith("duplicated",
                       [subset |-> subset, keep_first |-> keep_first,
                        returned |-> d.mask],
                       [self |-> df, ret |-> EmptyDf, threw |-> d.threw,
                        crashed |-> FALSE])

DropDuplicates ==
    /\ CanCall
    /\ \E subset \in Subsets, keep_first \in BOOLEAN :
         CalledWith("drop_duplicates",
                    [subset |-> subset, keep_first |-> keep_first],
                    drop_duplicates(df, subset, keep_first))

NextDuplicates == JoinAssign \/ Duplicated \/ DropDuplicates

SpecDuplicates == Init /\ [][NextDuplicates]_vars

\* The number of rows a mask marks.
Marked(mask) == Cardinality({i \in DOMAIN mask : mask[i]})

\* C15: the table drop_duplicates(subset, true) returns is returned
\* unchanged by a second drop_duplicates(subset, true), and the number of
\* rows duplicated(subset, true) marks is the row count of the table minus
\* the row count of the table drop_duplicates(subset, true) returns.
C15_DropDuplicatesIdempotentAndCounted ==
    /\ ( last.op = "drop_duplicates" /\ last.args.keep_first /\ ~last.threw )
       => LET again == drop_duplicates(result, last.args.subset, TRUE)
          IN /\ ~again.threw
             /\ again.ret = result
             /\ Marked(duplicated(pre, last.args.subset, TRUE).mask)
                  = Len(pre.data_values) - Len(result.data_values)
    /\ ( last.op = "duplicated" /\ last.args.keep_first /\ ~last.threw )
       => Marked(last.args.returned)
            = Len(df.data_values)
                - Len(drop_duplicates(df, last.args.subset, TRUE).ret.data_values)

\* drop_duplicates(subset, true) has dropped a row of the table.
C15_DroppedADuplicate ==
    /\ last.op = "drop_duplicates" /\ last.args.keep_first /\ ~last.threw
    /\ Len(result.data_values) < Len(pre.data_values)
    /\ Len(result.data_values) > 0

(***************************************************************************)
(* Dropping rows with null cells.                                          *)
(***************************************************************************)
DropnaHow ==
    /\ CanCall
    /\ \E how \in {"any", "all"} :
         CalledWith("dropna", [how |-> how], dropna(df, how))

NextDropna == DropColumn \/ JoinAssign \/ DropnaHow

SpecDropna == Init /\ [][NextDropna]_vars

\* The table kept has fewer copies of the row than the table it was made of.
DroppedFrom(whole, kept, row) ==
    Copies(kept.data_values, row) < Copies(whole.data_values, row)

\* C16: a row dropna("any") drops and dropna("all") keeps has an empty and
\* a non-empty cell, and a row dropna("all") drops is dropped by
\* dropna("any") too.
C16_DropnaAnyDropsWhatAllDrops ==
    last.op = "dropna"
    => \A i \in DOMAIN pre.data_values :
          LET row == pre.data_values[i]
          IN /\ ( /\ last.args.how = "any"
                  /\ DroppedFrom(pre, result, row)
                  /\ ~DroppedFrom(pre, dropna(pre, "all").ret, row) )
                => /\ \E c \in DOMAIN row : row[c] = <<>>
                   /\ \E c \in DOMAIN row : row[c] # <<>>
             /\ ( last.args.how = "all" /\ DroppedFrom(pre, result, row) )
                => DroppedFrom(pre, dropna(pre, "any").ret, row)

(***************************************************************************)
(* Quantiles.  A quantile argument is held in quarters: q stands for the   *)
(* double q / Quarters.                                                    *)
(***************************************************************************)
Quarters == 4

\* QuantileAt without its position: the lowest value.
LowestValue(values, q) == values[1]

\* The body of the loop over q: values is sorted, pos = q * (size - 1).
QuantileAt(values, q) ==
    LET pos == q * (Len(values) - 1)
        lower == pos \div Quarters
        upper == IF pos % Quarters = 0 THEN lower ELSE lower + 1
        weight == pos - lower * Quarters
    IN IF lower = upper THEN values[lower + 1]
       ELSE RoundDiv(values[lower + 1] * (Quarters - weight)
                       + values[upper + 1] * weight, Quarters)

quantile(t, col_name, q) ==
    IF ~HasColumn(t, col_name) THEN StatThrows
    ELSE LET col_idx == find_column_index(t, col_name)
             values == SortNumbers(ParsedValues(t, col_idx))
         IN IF t.column_types[col_idx + 1] = DataType_STRING THEN StatThrows
            ELSE IF values = <<>> THEN StatThrows
            ELSE IF \E n \in DOMAIN q : q[n] < 0 \/ q[n] > Quarters THEN StatThrows
            ELSE Yields([n \in DOMAIN q |-> QuantileAt(values, q[n])])

\* The cells of a file of numbers.
NumberCells == {<<>>, <<"1">>, <<"2">>, <<"3">>, <<"k">>}

\* The q arguments of the calls.
QuantileLists == {<<>>, <<0>>, <<Quarters>>, <<0 - 1>>, <<Quarters + 1>>, <<2>>,
                  <<1>>, <<0, Quarters>>, <<0, Quarters + 1>>}

InitNumbers ==
    /\ \E lines \in SeqsUpTo(SeqsOfLen(NumberCells, 1), MaxRows) :
          df = read_csv(<<"a">>, lines)
    /\ other \in Others
    /\ result = EmptyDf
    /\ pre = df
    /\ last = NoCall
    /\ calls = <<>>

\* A statistic of df as Computed, the arguments kept in last.args.
ComputedWith(op, args, r) ==
    /\ last' = [op |-> op, col |-> "", pos |-> 0, len |-> 0,
                threw |-> r.threw, crashed |-> FALSE, value |-> r.value,
                args |-> args]
    /\ pre' = df
    /\ result' = EmptyDf
    /\ calls' = Append(calls, op)
    /\ UNCHANGED <<df, other>>

Quantile ==
    /\ CanCall
    /\ \E col_name \in LookupNames, q \in QuantileLists :
         ComputedWith("quantile", [col_name |-> col_name, q |-> q],
                      quantile(df, col_name, q))

NextQuantile == FillnaValue \/ Quantile \/ Min \/ Max

SpecQuantile == InitNumbers /\ [][NextQuantile]_vars

\* C17: on a column that is not STRING and has a cell that parses,
\* quantile(col, {0.0}) returns min(col) and quantile(col, {1.0}) returns
\* max(col); a quantile call with a q below 0 or above 1 throws.
C17_QuantileEndsAreMinAndMax ==
    last.op = "quantile"
    => LET col_name == last.args.col_name
           q == last.args.q
       IN /\ ( /\ HasColumn(df, col_name)
               /\ df.column_types[find_column_index(df, col_name) + 1] # DataType_STRING
               /\ Parseable(df, find_column_index(df, col_name) + 1) >= 1 )
             => /\ q = <<0>> =>
                     /\ ~last.threw
                     /\ ~min(df, col_name).threw
                     /\ last.value = <<min(df, col_name).value>>
                /\ q = <<Quarters>> =>
                     /\ ~last.threw
                     /\ ~max(df, col_name).threw
                     /\ last.value = <<max(df, col_name).value>>
          /\ (\E n \in DOMAIN q : q[n] < 0 \/ q[n] > Quarters) => last.threw

\* quantile(col, {1.0}) has returned on a column whose values differ.
C17_UpperEndOfTwoValues ==
    /\ last.op = "quantile" /\ ~last.threw
    /\ last.args.q = <<Quarters>>
    /\ min(df, last.args.col_name).value < max(df, last.args.col_name).value

(***************************************************************************)
(* The table of ids and scores: read from a file, or the ids read from a   *)
(* file and the scores added with add_column.                              *)
(***************************************************************************)
ScoreCells == {<<>>, <<"1", "0">>, <<"3", "0">>, <<"k">>}

IdLines == << <<<<"1">>>>, <<<<"2">>>>, <<<<"3">>>> >>

ScoreValues == << <<"1", "0">>, <<>>, <<"3", "0">> >>

ScoreLines == [i \in DOMAIN IdLines |-> Append(IdLines[i], ScoreValues[i])]

InitScore ==
    /\ \/ df = read_csv(<<"id", "score">>, ScoreLines)
       \/ df = read_csv(<<"id">>, IdLines)
       \/ \E lines \in SeqsUpTo({<<<<"1">>, score>> : score \in ScoreCells}, MaxRows) :
             df = read_csv(<<"id", "score">>, lines)
    /\ other \in Others
    /\ result = EmptyDf
    /\ pre = df
    /\ last = NoCall
    /\ calls = <<>>

AddScore ==
    /\ CanCall
    /\ \E values \in {ScoreValues} \cup SeqsOfLen({<<>>, <<"1", "0">>}, Len(df.data_values)) :
         CalledWith("add_column", [col_name |-> "score", values |-> values],
                    add_column(df, "score", values))

FillnaScore ==
    /\ CanCall
    /\ \E col_name \in {"id", "score", "rank"},
          value \in {<<>>, <<"2", "0">>, <<"k">>} :
         CalledWith("fillna_value", [col_name |-> col_name, value |-> value],
                    fillna_value(df, col_name, value))

MeanScore ==
    /\ CanCall
    /\ \E col_name \in {"id", "score", "rank"} :
         ComputedWith("mean", [col_name |-> col_name], mean(df, col_name))

NextScore == AddScore \/ FillnaScore \/ MeanScore

SpecScore == InitScore /\ [][NextScore]_vars

\* The table has the columns id = 1, 2, 3 and score = "10", "", "30".
IsScoreTable(t) ==
    /\ t.data_features = <<"id", "score">>
    /\ t.data_values = ScoreLines

\* C18: on the table id = 1, 2, 3, score = "10", "", "30" mean("score") is
\* 20 and isnull reports 1 for score, and after fillna_value("score", "20")
\* mean("score") is 20 and isnull reports 0 for score; after any
\* fillna_value(col, v) with a non-empty v on a table whose rows all hold
\* a cell for col, isnull reports 0 for col and the cells that were not
\* empty are unchanged.
C18_ScoreScenarioAndFill ==
    /\ IsScoreTable(df)
       => /\ mean(df, "score") = Yields(20 * Micro)
          /\ isnull(df)[2] = 1
    /\ ( /\ last.op = "mean" /\ last.args.col_name = "score"
         /\ IsScoreTable(df) )
       => (~last.threw /\ last.value = 20 * Micro)
    /\ ( /\ last.op = "fillna_value" /\ IsScoreTable(pre)
         /\ last.args = [col_name |-> "score", value |-> <<"2", "0">>] )
       => /\ mean(df, "score") = Yields(20 * Micro)
          /\ isnull(df)[2] = 0
    /\ ( /\ last.op = "fillna_value" /\ ~last.threw
         /\ last.args.value # <<>>
         /\ HasColumn(pre, last.args.col_name)
         /\ \A r \in DOMAIN pre.data_values :
               find_column_index(pre, last.args.col_name) < Len(pre.data_values[r]) )
       => /\ isnull(df)[find_column_index(pre, last.args.col_name) + 1] = 0
          /\ Len(df.data_values) = Len(pre.data_values)
          /\ \A r \in DOMAIN pre.data_values :
                /\ Len(df.data_values[r]) = Len(pre.data_values[r])
                /\ \A c \in DOMAIN pre.data_values[r] :
                      pre.data_values[r][c] # <<>>
                      => df.data_values[r][c] = pre.data_values[r][c]

(***************************************************************************)
(* Rolling mean.  A double is a record: the quiet NaN, or a number in      *)
(* millionths.                                                             *)
(***************************************************************************)
NaN == [nan |-> TRUE, value |-> 0]

Num(v) == [nan |-> FALSE, value |-> v]

\* The extraction loop: one double per row, NaN for a cell that is missing,
\* empty or refused by std::stod.
ExtractValues(t, col_idx) ==
    [r \in DOMAIN t.data_values |->
        LET row == t.data_values[r]
        IN IF col_idx < Len(row) /\ row[col_idx + 1] # <<>>
           THEN IF stod_throws(row[col_idx + 1]) THEN NaN
                ELSE Num(stod(row[col_idx + 1]))
           ELSE NaN]

RECURSIVE SumFrom(_, _, _)
\* The inner loop: sum and count of the values at j..i that are not NaN.
SumFrom(values, j, i) ==
    IF j > i THEN [sum |-> 0, count |-> 0]
    ELSE LET rest == SumFrom(values, j + 1, i)
         IN IF values[j + 1].nan THEN rest
            ELSE [sum |-> values[j + 1].value + rest.sum, count |-> rest.count + 1]

\* WindowMean over all the rows up to i.
MeanSoFar(values, i, window) ==
    LET w == SumFrom(values, 0, i)
    IN IF w.count > 0 THEN Num(RoundDiv(w.sum, w.count)) ELSE NaN

\* The value pushed for row i when the window is complete.
WindowMean(values, i, window) ==
    LET w == SumFrom(values, i - window + 1, i)
    IN IF w.count > 0 THEN Num(RoundDiv(w.sum, w.count)) ELSE NaN

\* i < window - 1 on size_t: window - 1 of window 0 is the largest size_t.
BeforeWindow(i, window) == window = 0 \/ i < window - 1

rolling_mean(t, col_name, window) ==
    IF ~HasColumn(t, col_name) THEN StatThrows
    ELSE LET col_idx == find_column_index(t, col_name)
             values == ExtractValues(t, col_idx)
         IN IF t.column_types[col_idx + 1] = DataType_STRING THEN StatThrows
            ELSE Yields([k \in DOMAIN values |->
                           IF BeforeWindow(k - 1, window) THEN NaN
                           ELSE WindowMean(values, k - 1, window)])

\* The window arguments of the calls.
Windows == 0..3

\* The file of the column 1, 2, 3, 4.
OneToFour == << <<<<"1">>>>, <<<<"2">>>>, <<<<"3">>>>, <<<<"4">>>> >>

InitRolling ==
    /\ \/ df = read_csv(<<"a">>, OneToFour)
       \/ \E lines \in SeqsUpTo(SeqsOfLen(NumberCells, 1), MaxRows) :
             df = read_csv(<<"a">>, lines)
    /\ other \in Others
    /\ result = EmptyDf
    /\ pre = df
    /\ last = NoCall
    /\ calls = <<>>

RollingMean ==
    /\ CanCall
    /\ \E col_name \in LookupNames, window \in Windows :
         ComputedWith("rolling_mean", [col_name |-> col_name, window |-> window],
                      rolling_mean(df, col_name, window))

NextRolling == FillnaValue \/ RollingMean

SpecRolling == InitRolling /\ [][NextRolling]_vars

\* The cell of row r (from 1) in column c (from 1) is a hole: missing,
\* empty or not a number.
IsHole(t, r, c) ==
    \/ c > Len(t.data_values[r])
    \/ t.data_values[r][c] = <<>>
    \/ stod_throws(t.data_values[r][c])

RECURSIVE SumOver(_, _, _)
\* The sum of the numbers column c holds in the rows of the set rows.
SumOver(t, rows, c) ==
    IF rows = {} THEN 0
    ELSE LET r == CHOOSE x \in rows : TRUE
         IN stod(t.data_values[r][c]) + SumOver(t, rows \ {r}, c)

\* C19: a rolling_mean call that returns gives one output per row; the
\* output of row i (from 0) is NaN when i < window - 1, and otherwise the
\* mean of the values that are no holes in the rows i - window + 1 .. i,
\* NaN when all of them are holes; over the column 1, 2, 3, 4 with window 2
\* the outputs are NaN, 1.5, 2.5, 3.5.
C19_RollingMeanPerRow ==
    ( last.op = "rolling_mean" /\ ~last.threw )
    => LET c == find_column_index(df, last.args.col_name) + 1
           window == last.args.window
           out == last.value
       IN /\ Len(out) = Len(df.data_values)
          /\ \A i \in 0..(Len(df.data_values) - 1) :
                IF i < window - 1 THEN out[i + 1] = NaN
                ELSE LET valid == {r \in (i - window + 2)..(i + 1) : ~IsHole(df, r, c)}
                     IN IF valid = {} THEN out[i + 1] = NaN
                        ELSE out[i + 1]
                               = Num(RoundDiv(SumOver(df, valid, c), Cardinality(valid)))
          /\ ( df.data_values = OneToFour /\ window = 2 )
             => out = <<NaN, Num(1500000), Num(2500000), Num(3500000)>>

\* rolling_mean has returned over the column 1, 2, 3, 4 with window 2.
C19_OneToFourRolled ==
    /\ last.op = "rolling_mean" /\ ~last.threw
    /\ last.args.window = 2
    /\ df.data_values = OneToFour

(***************************************************************************)
(* aggregate.  agg_funcs is a std::map: its pairs come in the order of     *)
(* their column names, no name twice.  root is the value std::sqrt gives   *)
(* std_dev when it does not throw.                                         *)
(***************************************************************************)
\* count: it throws on an unknown column and otherwise returns the stored
\* counter.
count(t, col_name) ==
    IF ~HasColumn(t, col_name) THEN StatThrows
    ELSE Yields(t.non_null_counts[find_column_index(t, col_name) + 1] * Micro)

\* The try block for one pair: result_val stays 0.0 when no branch is taken.
AggregateCell(t, col_name, func_name, root) ==
    LET r == IF func_name = "mean" THEN mean(t, col_name)
             ELSE IF func_name = "sum" THEN sum(t, col_name)
             ELSE IF func_name = "min" THEN min(t, col_name)
             ELSE IF func_name = "max" THEN max(t, col_name)
             ELSE IF func_name = "count" THEN count(t, col_name)
             ELSE IF func_name = "std"
                  THEN IF std_dev_throws(t, col_name) THEN StatThrows ELSE Yields(root)
             ELSE Yields(0)
    IN IF r.threw THEN <<"N", "a", "N">> ELSE to_string(r.value)

aggregate(t, agg_funcs, root) ==
    Returns(t, Refreshed(
        [n \in DOMAIN agg_funcs |-> agg_funcs[n][1] \o "_" \o agg_funcs[n][2]],
        [n \in DOMAIN agg_funcs |-> DataType_FLOAT],
        << [n \in DOMAIN agg_funcs |->
               AggregateCell(t, agg_funcs[n][1], agg_funcs[n][2], root)] >>))

\* The function names of the calls; aggregate has no branch for "median".
FuncNames == {"mean", "sum", "min", "max", "count", "std", "median"}

\* The maps of the calls.
AggFuncs ==
    {<<>>} \cup {<< <<col, f>> >> : col \in {"a", "b", "z"}, f \in FuncNames}
           \cup {<< <<"a", f>>, <<"b", g>> >> : f \in FuncNames, g \in {"mean", "count"}}

Aggregate ==
    /\ Fresh
    /\ \E agg_funcs \in AggFuncs, root \in {0, 707107} :
         CalledWith("aggregate", [agg_funcs |-> agg_funcs],
                    aggregate(df, agg_funcs, root))

NextAggregate == Aggregate

SpecAggregate == Init /\ [][NextAggregate]_vars

\* The computation of func_name over the column cannot be carried out:
\* the function is none of aggregate's, the column is unknown, or the
\* statistic throws on the column.
CannotCompute(t, col_name, func_name) ==
    \/ func_name \notin {"mean", "sum", "min", "max", "count", "std"}
    \/ ~HasColumn(t, col_name)
    \/ func_name = "mean" /\ mean(t, col_name).threw
    \/ func_name = "sum" /\ sum(t, col_name).threw
    \/ func_name = "min" /\ min(t, col_name).threw
    \/ func_name = "max" /\ max(t, col_name).threw
    \/ func_name = "std" /\ std_dev_throws(t, col_name)

\* C20: aggregate does not throw; it returns a table of one row with one
\* cell per pair of the map, and the cell of a pair whose computation
\* cannot be carried out (unknown column, STRING column, no valid value,
\* unrecognised function) is "NaN".
C20_AggregateYieldsNaNOnFailure ==
    last.op = "aggregate"
    => /\ ~last.threw
       /\ Len(result.data_values) = 1
       /\ Len(result.data_values[1]) = Len(last.args.agg_funcs)
       /\ Len(result.data_features) = Len(last.args.agg_funcs)
       /\ \A n \in DOMAIN last.args.agg_funcs :
             CannotCompute(df, last.args.agg_funcs[n][1], last.args.agg_funcs[n][2])
             => result.data_values[1][n] = <<"N", "a", "N">>

(***************************************************************************)
(* sample.  The random engine is an input: draws are the indices           *)
(* dis(gen) returns, order is the outcome of the shuffle.  On a table      *)
(* without rows the distribution is built over (0, -1) and every index it  *)
(* returns is outside the rows: the read is undefined, and the build       *)
(* either stops the program or pushes whatever row it finds there.         *)
(***************************************************************************)
\* The outcomes of shuffling 0 .. size - 1.
Shuffles(size) ==
    {s \in SeqsOfLen(0..(size - 1), size) : \A i, j \in DOMAIN s : i # j => s[i] # s[j]}

\* sample(n, replace): read are the indices at which data_values is read.
sample(t, n, replace, draws, order, garbage) ==
    IF n >= Len(t.data_values) /\ ~replace THEN Returns(t, t) @@ [read |-> <<>>]
    ELSE IF replace
    THEN IF \A k \in 1..n : draws[k] < Len(t.data_values)
         THEN Returns(t, Refreshed(t.data_features, t.column_types,
                                   [k \in 1..n |-> t.data_values[draws[k] + 1]]))
                @@ [read |-> SubSeq(draws, 1, n)]
         ELSE IF garbage = <<>> THEN Crashes(t) @@ [read |-> SubSeq(draws, 1, n)]
         ELSE Returns(t, Refreshed(t.data_features, t.column_types,
                                   [k \in 1..n |->
                                      IF draws[k] < Len(t.data_values)
                                      THEN t.data_values[draws[k] + 1]
                                      ELSE garbage[1]]))
                @@ [read |-> SubSeq(draws, 1, n)]
    ELSE Returns(t, Refreshed(t.data_features, t.column_types,
                              [k \in 1..n |-> t.data_values[order[k] + 1]]))
           @@ [read |-> SubSeq(order, 1, n)]

\* The n arguments of the calls.
SampleSizes == 0..3

Sample ==
    /\ Fresh
    /\ \E n \in SampleSizes, replace \in BOOLEAN,
          order \in Shuffles(Len(df.data_values)),
          garbage \in {<<>>, << <<>> >>, << <<<<"k">>>> >>} :
         \E draws \in SeqsOfLen(IF df.data_values = <<>> THEN {0, 1}
                                ELSE 0..(Len(df.data_values) - 1), n) :
            /\ (df.data_values # <<>> \/ ~replace \/ n = 0) => garbage = <<>>
            /\ replace => order = [k \in 1..Len(df.data_values) |-> k - 1]
            /\ LET r == sample(df, n, replace, draws, order, garbage)
               IN CalledWith("sample",
                             [n |-> n, replace |-> replace, read |-> r.read],
                             [self |-> r.self, ret |-> r.ret, threw |-> r.threw,
                              crashed |-> r.crashed])

NextSample == Sample

SpecSample == Init /\ [][NextSample]_vars

\* C21: sample reads the rows only at indices in [0, rows), on every table
\* and for every n; with replace it returns n rows, each the source row at
\* the index read for it; without replace and n <= rows it returns n rows
\* of pairwise distinct source positions, and with n > rows the table.
C21_SampleReadsValidRows ==
    last.op = "sample"
    => LET n == last.args.n
           read == last.args.read
           rows == pre.data_values
       IN /\ ~last.crashed
          /\ \A k \in DOMAIN read : read[k] >= 0 /\ read[k] < Len(rows)
          /\ last.args.replace =>
                /\ Len(result.data_values) = n
                /\ Len(read) = n
                /\ \A k \in 1..n : result.data_values[k] = rows[read[k] + 1]
          /\ (~last.args.replace /\ n <= Len(rows)) =>
                /\ Len(result.data_values) = n
                /\ \E at \in SeqsOfLen(DOMAIN rows, n) :
                      /\ \A i, j \in 1..n : i # j => at[i] # at[j]
                      /\ \A k \in 1..n : result.data_values[k] = rows[at[k]]
          /\ (~last.args.replace /\ n > Len(rows)) => result = pre

(***************************************************************************)
(* Sorting on several keys.                                                *)
(***************************************************************************)
RECURSIVE SortLessFrom(_, _, _, _, _)
\* The comparator of sort_values(col_names, ascending), from key i on: a
\* key a row is too short to hold is passed over.
SortLessFrom(a, b, col_indices, ascending, i) ==
    IF i > Len(col_indices) THEN FALSE
    ELSE LET col_idx == col_indices[i]
         IN IF col_idx >= Len(a) \/ col_idx >= Len(b)
            THEN SortLessFrom(a, b, col_indices, ascending, i + 1)
            ELSE IF a[col_idx + 1] # b[col_idx + 1]
            THEN IF ascending[i] THEN StrLess(a[col_idx + 1], b[col_idx + 1])
                 ELSE StrLess(b[col_idx + 1], a[col_idx + 1])
            ELSE SortLessFrom(a, b, col_indices, ascending, i + 1)

\* The orders std::ranges::sort may leave the rows in, as SortOrders.
SortOrdersOnKeys(rows, col_indices, ascending) ==
    LET n == Len(rows)
        perms == {p \in [1..n -> 1..n] : \A i, j \in 1..n : i # j => p[i] # p[j]}
    IN IF \E r \in 1..n, k \in DOMAIN col_indices : col_indices[k] >= Len(rows[r])
       THEN perms
       ELSE {p \in perms :
               \A i, j \in 1..n :
                  i < j => ~SortLessFrom(rows[p[j]], rows[p[i]], col_indices, ascending, 1)}

\* sort_values(col_names, ascending), order being the arrangement the
\* sort arrives at.
sort_values_on_keys(t, col_names, ascending, order) ==
    IF Len(col_names) # Len(ascending) THEN Throws(t)
    ELSE IF \E k \in DOMAIN col_names : ~HasColumn(t, col_names[k]) THEN Throws(t)
    ELSE Done(update_stats_after_modification(
           [t EXCEPT !.data_values =
               [i \in DOMAIN t.data_values |-> t.data_values[order[i]]]]))

SortOnColumn ==
    /\ Fresh
    /\ \E col_name \in LookupNames, ascending \in BOOLEAN :
         \E order \in SortOrders(df.data_values,
                                 IF HasColumn(df, col_name)
                                 THEN find_column_index(df, col_name) ELSE 0,
                                 ascending) :
            CalledWith("sort_values",
                       [col_names |-> <<col_name>>, ascending |-> <<ascending>>],
                       sort_values(df, col_name, ascending, order))

SortOnKeys ==
    /\ Fresh
    /\ \E col_names \in {<<>>, <<"a">>, <<"b">>, <<"a", "b">>, <<"b", "a">>, <<"a", "z">>},
          ascending \in SeqsUpTo(BOOLEAN, 2) :
         LET known == Len(col_names) = Len(ascending)
                      /\ \A k \in DOMAIN col_names : HasColumn(df, col_names[k])
             col_indices == IF known
                            THEN [k \in DOMAIN col_names |->
                                     find_column_index(df, col_names[k])]
                            ELSE <<>>
         IN \E order \in SortOrdersOnKeys(df.data_values, col_indices, ascending) :
               CalledWith("sort_values",
                          [col_names |-> col_names, ascending |-> ascending],
                          sort_values_on_keys(df, col_names, ascending, order))

NextSort == SortOnColumn \/ SortOnKeys

SpecSort == Init /\ [][NextSort]_vars

RECURSIVE KeysBefore(_, _, _, _, _)
\* Row a comes before row b on the keys from key i on: the first key cell
\* in which they differ is smaller in a (greater, for a descending key).
KeysBefore(t, a, b, keys, i) ==
    IF i > Len(keys.col_names) THEN FALSE
    ELSE LET c == find_column_index(t, keys.col_names[i]) + 1
         IN IF a[c] = b[c] THEN KeysBefore(t, a, b, keys, i + 1)
            ELSE IF keys.ascending[i] THEN StrLess(a[c], b[c]) ELSE StrLess(b[c], a[c])

\* C22: after a sort_values call that returns, the rows are the rows
\* before in an arrangement that is ordered on the keys, key by key in
\* each key's direction, and that keeps rows equal on every key in the
\* order they had.
C22_SortIsStablePermutation ==
    ( last.op = "sort_values" /\ ~last.threw )
    => LET before == pre.data_values
           n == Len(before)
       IN /\ Len(df.data_values) = n
          /\ \E p \in [1..n -> 1..n] :
                /\ \A i, j \in 1..n : i # j => p[i] # p[j]
                /\ \A i \in 1..n : df.data_values[i] = before[p[i]]
                /\ \A i, j \in 1..n :
                      i < j =>
                        /\ ~KeysBefore(pre, before[p[j]], before[p[i]], last.args, 1)
                        /\ ~KeysBefore(pre, before[p[i]], before[p[j]], last.args, 1)
                             => p[i] < p[j]

(***************************************************************************)
(* Ranking a column of numbers, on tables read from a file, joined or      *)
(* filled.                                                                 *)
(***************************************************************************)
NextRank == JoinAssign \/ FillnaValue \/ Rank

SpecRank == InitNumbers /\ [][NextRank]_vars

\* The cell of row r (from 1) in column c (from 1) holds a number.
HoldsNumber(t, r, c) ==
    /\ CellAt(t, r - 1, c - 1) # <<>>
    /\ ~stod_throws(CellAt(t, r - 1, c - 1))

\* C23: a rank call that returns gives the table with one more column, in
\* which the k rows whose cell holds a number carry the ranks 1..k, each
\* once, a smaller value never a larger rank than a greater one, and the
\* rows whose cell is null carry an empty cell; the cells of all columns
\* the table had are unchanged.
C23_RankNumbersValidRows ==
    ( last.op = "rank" /\ ~last.threw )
    => LET c == find_column_index(pre, last.col) + 1
           rows == DOMAIN pre.data_values
           ranked == {r \in rows : HoldsNumber(pre, r, c)}
           k == Cardinality(ranked)
           rank_col == Len(result.data_features)
           RankCell(r) == CellAt(result, r - 1, rank_col - 1)
           RankOf(r) == CHOOSE m \in 1..k : to_string_int(m) = RankCell(r)
       IN /\ Len(result.data_values) = Len(pre.data_values)
          /\ result.data_features = Append(pre.data_features, last.col \o "_rank")
          /\ \A r \in ranked : \E m \in 1..k : to_string_int(m) = RankCell(r)
          /\ \A r1, r2 \in ranked :
                /\ r1 # r2 => RankCell(r1) # RankCell(r2)
                /\ ( /\ \E m \in 1..k : to_string_int(m) = RankCell(r1)
                     /\ \E m \in 1..k : to_string_int(m) = RankCell(r2)
                     /\ stod(CellAt(pre, r1 - 1, c - 1)) < stod(CellAt(pre, r2 - 1, c - 1)) )
                   => RankOf(r1) < RankOf(r2)
          /\ \A r \in rows : CellAt(pre, r - 1, c - 1) = <<>> => RankCell(r) = <<>>
          /\ \A r \in rows, col \in DOMAIN pre.data_features :
                CellAt(result, r - 1, col - 1) = CellAt(pre, r - 1, col - 1)

(***************************************************************************)
(* Forward and backward fill, by fillna_method and by the imputers.        *)
(***************************************************************************)
FillWithMethod ==
    /\ CanCall
    /\ \E col_name \in {"a", "b", "n"}, method \in {"ffill", "pad", "bfill", "backfill"} :
         CalledWith("fillna_method", [col_name |-> col_name, method |-> method],
                    fillna_method(df, col_name, method))

FillWithImputer ==
    /\ CanCall
    /\ \E col_name \in {"a", "b", "n"}, kind \in {"ffill", "bfill"} :
         CalledWith("impute", [col_name |-> col_name, method |-> kind],
                    fillna_with_imputer(df, col_name,
                                        [kind |-> kind, fill_value |-> <<>>]))

NextFill == JoinAssign \/ FillWithMethod \/ FillWithImputer

SpecFill == Init /\ [][NextFill]_vars

\* The rows of after are the rows of before with column c (from 0) filled
\* forward: a null cell takes the value of the nearest non-null cell above
\* it and stays null when there is none.
FilledForward(before, after, c) ==
    /\ Len(after.data_values) = Len(before.data_values)
    /\ \A r \in DOMAIN before.data_values :
          LET above == {q \in 1..(r - 1) : CellAt(before, q - 1, c) # <<>>}
          IN IF CellAt(before, r - 1, c) # <<>> \/ above = {}
             THEN CellAt(after, r - 1, c) = CellAt(before, r - 1, c)
             ELSE CellAt(after, r - 1, c)
                    = CellAt(before, (CHOOSE q \in above : \A x \in above : x <= q) - 1, c)

\* The same with the nearest non-null cell below.
FilledBackward(before, after, c) ==
    /\ Len(after.data_values) = Len(before.data_values)
    /\ \A r \in DOMAIN before.data_values :
          LET below == {q \in (r + 1)..Len(before.data_values) :
                           CellAt(before, q - 1, c) # <<>>}
          IN IF CellAt(before, r - 1, c) # <<>> \/ below = {}
             THEN CellAt(after, r - 1, c) = CellAt(before, r - 1, c)
             ELSE CellAt(after, r - 1, c)
                    = CellAt(before, (CHOOSE q \in below : \A x \in below : q <= x) - 1, c)

\* C24: fillna_method with "ffill" or "pad" and ForwardFillImputer leave
\* the same table, in which every null cell of the column has the value of
\* the nearest non-null cell above it, stays null exactly when there is
\* none, and the non-null cells are unchanged; fillna_method with "bfill"
\* or "backfill" and BackwardFillImputer do the same with the cells below.
C24_FillMethodsAgreeWithImputers ==
    ( last.op \in {"fillna_method", "impute"} /\ ~last.threw )
    => LET col_name == last.args.col_name
           c == find_column_index(pre, col_name)
           forward == last.args.method \in {"ffill", "pad"}
       IN /\ forward =>
                /\ df = fillna_method(pre, col_name, "ffill").self
                /\ df = fillna_method(pre, col_name, "pad").self
                /\ df = ForwardFillImputer_impute(pre, col_name).self
                /\ FilledForward(pre, df, c)
          /\ ~forward =>
                /\ df = fillna_method(pre, col_name, "bfill").self
                /\ df = fillna_method(pre, col_name, "backfill").self
                /\ df = BackwardFillImputer_impute(pre, col_name).self
                /\ FilledBackward(pre, df, c)

(***************************************************************************)
(* Operators that return a changed copy of the table.                      *)
(***************************************************************************)
\* The characters trim_whitespace removes.
Whitespace == {" ", "\t", "\r", "\n"}

\* trim_whitespace: the text from its first to its last character that is
\* no whitespace, "" when it has none.
trim_whitespace(str) ==
    LET inner == {i \in DOMAIN str : str[i] \notin Whitespace}
    IN IF inner = {} THEN <<>>
       ELSE LET start == CHOOSE i \in inner : \A j \in inner : i <= j
                end == CHOOSE i \in inner : \A j \in inner : j <= i
            IN SubSeq(str, start, end)

\* str_strip(col_name): the copy is built before the column is looked up
\* and is returned without a refresh of its statistics.
str_strip(t, col_name) ==
    IF ~HasColumn(t, col_name) THEN Throws(t)
    ELSE LET col_idx == find_column_index(t, col_name)
         IN Returns(t, [t EXCEPT !.data_values =
                          [i \in DOMAIN t.data_values |->
                             IF col_idx < Len(t.data_values[i])
                             THEN SetCell(t.data_values[i], col_idx,
                                          trim_whitespace(t.data_values[i][col_idx + 1]))
                             ELSE t.data_values[i]]])

\* where(condition, other): accepted are the positions of the rows the
\* condition accepts; every cell of the other rows becomes other.  The
\* copy is returned without a refresh of its statistics.
where(t, accepted, other_value) ==
    Returns(t, [t EXCEPT !.data_values =
                  [i \in DOMAIN t.data_values |->
                     IF i \in accepted THEN t.data_values[i]
                     ELSE [j \in DOMAIN t.data_values[i] |-> other_value]]])

FillnaBlank ==
    /\ CanCall
    /\ \E col_name \in LookupNames :
         CalledWith("fillna_value", [col_name |-> col_name, value |-> <<" ">>],
                    fillna_value(df, col_name, <<" ">>))

StrStrip ==
    /\ CanCall
    /\ \E col_name \in LookupNames :
         CalledWith("str_strip", [col_name |-> col_name], str_strip(df, col_name))

Where ==
    /\ CanCall
    /\ \E accepted \in SUBSET DOMAIN df.data_values, other_value \in ArgCells :
         CalledWith("where", [accepted |-> accepted, other |-> other_value],
                    where(df, accepted, other_value))

NextReturned == FillnaBlank \/ StrStrip \/ Where \/ FilterRows \/ Dropna

SpecReturned == Init /\ [][NextReturned]_vars

\* C25: the table an operator returns (here filter_rows, dropna, where,
\* str_strip) has statistics that agree with its cells: for every column
\* null_positions lists the rows whose cell is empty and non_null_counts
\* counts the others.
C25_ReturnedStatsAgreeWithCells ==
    ( last.op \in {"filter_rows", "dropna", "where", "str_strip"} /\ ~last.threw )
    => /\ Len(result.null_positions) = Len(result.data_features)
       /\ Len(result.non_null_counts) = Len(result.data_features)
       /\ \A c \in DOMAIN result.data_features :
            /\ Range(result.null_positions[c]) = EmptyRows(result, c)
            /\ Len(result.null_positions[c]) = Cardinality(EmptyRows(result, c))
            /\ result.non_null_counts[c]
                 = Len(result.data_values) - Cardinality(EmptyRows(result, c))

(***************************************************************************)
(* Linear interpolation, by interpolate and by the imputer.                *)
(***************************************************************************)
\* interpolate(col_name, method): the loop is that of the imputer, over a
\* copy; its bound size() - 1 is computed on size_t, and on a table
\* without rows the loop reads row 1 of an empty vector and the rows
\* behind it until the process ends.
interpolate(t, col_name, method) ==
    IF ~HasColumn(t, col_name) THEN Throws(t)
    ELSE LET col_idx == find_column_index(t, col_name)
         IN IF t.column_types[col_idx + 1] = DataType_STRING THEN Throws(t)
            ELSE IF method # "linear" THEN Returns(t, update_stats_after_modification(t))
            ELSE IF Len(t.data_values) = 0 THEN Crashes(t)
            ELSE Returns(t, update_stats_after_modification(
                   [t EXCEPT !.data_values = LinearFill(t.data_values, col_idx, 1)]))

Interpolate ==
    /\ Fresh
    /\ \E col_name \in LookupNames, method \in {"linear", "cubic"} :
         CalledWith("interpolate", [col_name |-> col_name, method |-> method],
                    interpolate(df, col_name, method))

ImputeLinear ==
    /\ Fresh
    /\ \E col_name \in LookupNames :
         CalledWith("impute", [col_name |-> col_name, method |-> "linear"],
                    LinearInterpolationImputer_impute(df, col_name))

NextInterpolate == Interpolate \/ ImputeLinear

SpecInterpolate == Init /\ [][NextInterpolate]_vars

\* C26: interpolate(col, "linear") and LinearInterpolationImputer read the
\* rows only at indices in [0, row_count) - the call does not run off the
\* rows, on a table without rows either - and on a table of fewer than
\* three rows they leave the cells as they were.
C26_InterpolateStaysInsideRows ==
    ( last.op \in {"interpolate", "impute"} /\ last.args.method = "linear" )
    => /\ ~last.crashed
       /\ ( ~last.threw /\ Len(pre.data_values) < 3 )
          => IF last.op = "interpolate"
             THEN result.data_values = pre.data_values
             ELSE df.data_values = pre.data_values

(***************************************************************************)
(* str_replace, one iteration of its while loop per step.  result is the   *)
(* copy the loop rewrites; last holds the position of the call: the row    *)
(* it is at, pos, and the parity of the iterations made (an iteration      *)
(* that changes neither the cell nor pos is a step of the program all the  *)
(* same).                                                                  *)
(***************************************************************************)
\* The length at which the std::string of a cell can grow no more
\* (std::length_error, std::bad_alloc).
CellLimit == 8

\* The cells of a file of texts, and the pattern and replacement arguments.
TextCells == {<<>>, <<"a">>, <<"a", "a">>, <<"a", "b">>, <<"a", "b", "a">>}

Patterns == {<<>>, <<"a">>, <<"a", "b">>}

Replacements == {<<>>, <<"b">>, <<"a", "a">>}

\* std::string::find(pattern, pos): the first position at or after pos at
\* which pattern stands, -1 for npos.  The empty pattern stands at every
\* position up to the length.
Find(cell, pattern, pos) ==
    LET hits == {i \in pos..(Len(cell) - Len(pattern)) :
                    SubSeq(cell, i + 1, i + Len(pattern)) = pattern}
    IN IF hits = {} THEN 0 - 1 ELSE CHOOSE i \in hits : \A j \in hits : i <= j

\* std::string::replace(pos, n, replacement).
Replace(cell, pos, n, replacement) ==
    SubSeq(cell, 1, pos) \o replacement \o SubSeq(cell, pos + n + 1, Len(cell))

InitReplace ==
    /\ \E lines \in SeqsUpTo(SeqsOfLen(TextCells, 1), MaxRows) :
          df = read_csv(<<"a">>, lines)
    /\ other \in Others
    /\ result = EmptyDf
    /\ pre = df
    /\ last = NoCall
    /\ calls = <<>>

\* The call up to its loop: the copy is made, the column looked up.
StrReplaceCall ==
    /\ Fresh
    /\ \E col_name \in LookupNames, pattern \in Patterns, replacement \in Replacements :
         /\ last' = [op |-> "str_replace", col |-> col_name, pos |-> 0, len |-> 0,
                     threw |-> ~HasColumn(df, col_name), crashed |-> FALSE,
                     value |-> 0,
                     args |-> [pattern |-> pattern, replacement |-> replacement],
                     pc |-> IF HasColumn(df, col_name) THEN "loop" ELSE "threw",
                     row |-> 0, parity |-> 0]
         /\ result' = IF HasColumn(df, col_name) THEN df ELSE EmptyDf
    /\ pre' = df
    /\ calls' = Append(calls, "str_replace")
    /\ UNCHANGED <<df, other>>

\* One test of the while condition and, when it holds, one pass of the
\* body; behind the last row the copy is returned.
StrReplaceStep ==
    /\ last.op = "str_replace"
    /\ last.pc = "loop"
    /\ LET col_idx == find_column_index(df, last.col)
           rows == result.data_values
           pattern == last.args.pattern
           replacement == last.args.replacement
       IN IF last.row >= Len(rows)
          THEN /\ last' = [last EXCEPT !.pc = "done"]
               /\ UNCHANGED result
          ELSE IF col_idx >= Len(rows[last.row + 1])
          THEN /\ last' = [last EXCEPT !.row = @ + 1, !.pos = 0]
               /\ UNCHANGED result
          ELSE LET cell == rows[last.row + 1][col_idx + 1]
                   found == Find(cell, pattern, last.pos)
                   replaced == Replace(cell, found, Len(pattern), replacement)
               IN IF found < 0
                  THEN /\ last' = [last EXCEPT !.row = @ + 1, !.pos = 0]
                       /\ UNCHANGED result
                  ELSE IF Len(replaced) > CellLimit
                  THEN /\ last' = [last EXCEPT !.pc = "threw", !.threw = TRUE]
                       /\ result' = EmptyDf
                  ELSE /\ last' = [last EXCEPT !.pos = found + Len(replacement),
                                               !.parity = 1 - @]
                       /\ result' = [result EXCEPT
                                       !.data_values[last.row + 1][col_idx + 1] = replaced]
    /\ UNCHANGED <<df, other, pre, calls>>

NextReplace == StrReplaceCall \/ StrReplaceStep

\* The loop is not suspended: a call that can make a step makes it.
SpecReplace == InitReplace /\ [][NextReplace]_vars /\ WF_vars(StrReplaceStep)

RECURSIVE ReplacedAll(_, _, _)
\* The text with every occurrence of the non-empty pattern replaced, the
\* occurrences taken from left to right without overlap.
ReplacedAll(cell, pattern, replacement) ==
    IF Len(cell) < Len(pattern) THEN cell
    ELSE IF SubSeq(cell, 1, Len(pattern)) = pattern
    THEN replacement \o ReplacedAll(SubSeq(cell, Len(pattern) + 1, Len(cell)),
                                    pattern, replacement)
    ELSE <<cell[1]>> \o ReplacedAll(Tail(cell), pattern, replacement)

\* The call has returned the table with the occurrences replaced.
StrReplaceReturned ==
    /\ last.op = "str_replace"
    /\ last.pc = "done"
    /\ Len(result.data_values) = Len(df.data_values)
    /\ last.args.pattern # <<>> =>
          \A r \in DOMAIN df.data_values :
             result.data_values[r]
               = << ReplacedAll(df.data_values[r][1], last.args.pattern,
                                last.args.replacement) >>

\* The call has ended in the exception of a cell that can grow no more.
StrReplaceOutOfRoom == last.op = "str_replace" /\ last.pc = "threw"

\* C27: a str_replace call on a column of the table comes to an end for
\* every pattern and replacement, the empty ones included: it returns the
\* table with every occurrence of the pattern, taken from left to right
\* without overlap, replaced (a call whose cell has outgrown every
\* std::string is let off with its exception).
C27_StrReplaceTerminates ==
    (last.op = "str_replace" /\ HasColumn(df, last.col))
      ~> (StrReplaceReturned \/ StrReplaceOutOfRoom)

(***************************************************************************)
(* drop_rows: the indices sorted in descending order, then one drop_row    *)
(* per element of the sorted vector.                                       *)
(***************************************************************************)
\* std::sort over the reverse iterators: the indices in descending order,
\* an index listed twice standing twice.
SortedDescending(row_indices) ==
    LET up == SortNumbers(row_indices)
    IN [i \in DOMAIN up |-> up[Len(up) + 1 - i]]

RECURSIVE DropEach(_, _)
\* The loop of drop_rows; the exception of a drop_row leaves the loop with
\* the rows dropped so far gone.
DropEach(t, sorted_indices) ==
    IF sorted_indices = <<>> THEN Done(t)
    ELSE LET one == drop_row(t, sorted_indices[1])
         IN IF one.threw THEN one ELSE DropEach(one.self, Tail(sorted_indices))

drop_rows(t, row_indices) == DropEach(t, SortedDescending(row_indices))

\* The index vectors of a call: up to MaxRows elements, repeated ones and
\* one behind the last row among them.
IndexVectors == SeqsUpTo(0..MaxRows, MaxRows)

DropRows ==
    /\ Fresh
    /\ \E row_indices \in IndexVectors :
         CalledWith("drop_rows", [row_indices |-> row_indices],
                    drop_rows(df, row_indices))

NextDropRows == DropRows

SpecDropRows == InitNumbers /\ [][NextDropRows]_vars

\* C28: drop_rows with every index below the row count removes exactly the
\* rows whose positions are listed, each once however often its index is
\* listed, and leaves the other rows in their order.
C28_DropRowsRemovesListedRows ==
    (/\ last.op = "drop_rows"
     /\ \A i \in Range(last.args.row_indices) : i < Len(pre.data_values))
    => /\ ~last.threw
       /\ df.data_values
            = Select(pre.data_values,
                     {r \in DOMAIN pre.data_values :
                         (r - 1) \notin Range(last.args.row_indices)})

(***************************************************************************)
(* drop_columns and rename_columns: one drop_column, one rename_column     *)
(* per element, on the table itself.                                       *)
(***************************************************************************)
RECURSIVE drop_columns(_, _)
\* The exception of a drop_column leaves the loop with the columns dropped
\* so far gone.
drop_columns(t, col_names) ==
    IF col_names = <<>> THEN Done(t)
    ELSE LET one == drop_column(t, col_names[1])
         IN IF one.threw THEN one ELSE drop_columns(one.self, Tail(col_names))

\* The column names of the calls in the order of std::less<std::string>,
\* the order in which a std::map is walked.
NameOrder == <<"a", "b", "c", "d", "n", "z">>

\* The keys of a rename map in the order of its iteration.
KeysInOrder(rename_map) ==
    Flatten([i \in DOMAIN NameOrder |->
               IF NameOrder[i] \in DOMAIN rename_map THEN <<NameOrder[i]>> ELSE <<>>])

RECURSIVE RenameEach(_, _, _)
RenameEach(t, rename_map, keys) ==
    IF keys = <<>> THEN Done(t)
    ELSE LET one == rename_column(t, keys[1], rename_map[keys[1]])
         IN IF one.threw THEN one ELSE RenameEach(one.self, rename_map, Tail(keys))

rename_columns(t, rename_map) == RenameEach(t, rename_map, KeysInOrder(rename_map))

\* The name vectors and the rename maps of the calls: "z" is the name of no
\* column of a table read from a file.
NameVectors == SeqsUpTo({"a", "b", "z"}, 2)

RenameMaps ==
    UNION {[keys -> {"n", "z"}] : keys \in (SUBSET {"a", "b", "z"}) \ {{"a", "b", "z"}}}

DropColumns ==
    /\ Fresh
    /\ \E col_names \in NameVectors :
         CalledWith("drop_columns", [col_names |-> col_names],
                    drop_columns(df, col_names))

RenameColumns ==
    /\ Fresh
    /\ \E rename_map \in RenameMaps :
         CalledWith("rename_columns", [rename_map |-> rename_map],
                    rename_columns(df, rename_map))

NextColumns == DropColumns \/ RenameColumns

SpecColumns == Init /\ [][NextColumns]_vars

\* The call names a column the table does not have, or names a column for
\* the second time.
NamesMissingColumn ==
    \/ /\ last.op = "drop_columns"
       /\ \/ \E i \in DOMAIN last.args.col_names :
                last.args.col_names[i] \notin Range(pre.data_features)
          \/ \E i, j \in DOMAIN last.args.col_names :
                i < j /\ last.args.col_names[i] = last.args.col_names[j]
    \/ /\ last.op = "rename_columns"
       /\ \E key \in DOMAIN last.args.rename_map : key \notin Range(pre.data_features)

\* C29: a drop_columns or rename_columns call that names a column the table
\* does not have (or has no more after an earlier element of the call)
\* fails, and the table is as it was before the call.
C29_ColumnMutatorsAllOrNothing ==
    NamesMissingColumn => (last.threw /\ df = pre)

\* The row has a cell in every column of t and none of them is empty.
NoNullInRow(t, row) ==
    /\ Len(row) >= Len(t.data_features)
    /\ \A c \in DOMAIN t.data_features : row[c] # <<>>

\* C30: no row of the table dropna("any") returns has a null in any column,
\* a cell missing at the end of a row shorter than the column list being a
\* null; the rows a join other than "left" leaves short are among the rows
\* the call is made on.
C30_DropnaAnyLeavesNoNull ==
    (last.op = "dropna" /\ last.args.how = "any")
    => \A r \in DOMAIN result.data_values :
          NoNullInRow(result, result.data_values[r])

====
